---- MODULE Spec2Model ----
(***************************************************************************)
(* A model of startup.py: the function-call dependency resolver            *)
(* (class Startup, class Variable, class Closure and the module-level      *)
(* helpers _parse_args, _parse_ret, _write_values, _notify_reader_writes). *)
(*                                                                         *)
(* A behaviour is one use of a Startup object: functions of one program    *)
(* are added (Startup.__call__) in any order, then Startup.call() is      *)
(* entered with keyword arguments, its loop runs one closure per step,     *)
(* and call() returns the dict of values or raises (Spec).  SpecReuse      *)
(* lets call() be entered again, after it has ended or from a function it  *)
(* invokes; SpecVariable applies the operations of one Variable.           *)
(***************************************************************************)
EXTENDS Integers, Sequences, FiniteSets, TLC

VARIABLES
    program,    \* which program (set of functions) the host decorates
    funcs,      \* Startup.funcs: functions added and not yet called
    variables,  \* Startup.variables: defaultdict name -> Variable
    closures,   \* the Closure objects, in the order of their creation
    satisfied,  \* Startup.satisfied; call() aliases it as `queue`
    released,   \* TRUE once Startup._release() has deleted the attributes
    pc,         \* "idle" | "loop" (inside call()) | "returned" | "raised"
    kwargs,     \* the keyword arguments of call(), in keyword order
    result,     \* the dict call() returned (when pc = "returned")
    raised,     \* the exception the last operation raised, "" if none
    reported,   \* the set named by the "cannot satisfy dependency" message
    added,      \* history: the functions added successfully, in order
    log,        \* history: one record per invocation of a function
    batch,      \* history: closure -> number of the batch that enqueued it
    calls,      \* history: how many times call() has been entered
    notified    \* history: the notifications a closure on its own accepted

vars == <<program, funcs, variables, closures, satisfied, released, pc,
          kwargs, result, raised, reported, added, log, batch, calls,
          notified>>

(***************************************************************************)
(* Bounds.                                                                 *)
(***************************************************************************)
MaxFuncs == 4       \* at most this many functions are added to one Startup
MaxKwargs == 2      \* call() is given at most this many keyword arguments
MaxCalls == 2       \* call() is entered at most this many times on one Startup

(***************************************************************************)
(* Python values.  Variable values are integers; a function with a tuple   *)
(* return annotation returns a tuple (a sequence) of integers.             *)
(***************************************************************************)
NonStr == "<1>"     \* an annotation element that is not a str (e.g. 1)
None == -1          \* what a function returns that has no return statement

\* Parameter annotations: 'v', ['v', ...], ('v', ...), 1.
Str(a, v) == [arg |-> a, type |-> "str", items |-> <<v>>]
List(a, vs) == [arg |-> a, type |-> "list", items |-> vs]
Tuple(a, vs) == [arg |-> a, type |-> "tuple", items |-> vs]
Int1(a) == [arg |-> a, type |-> "int", items |-> <<>>]

\* Return annotations: absent, 'v', ('v', ...), [...], 1.
RetNone == [type |-> "none", items |-> <<>>]
RetStr(v) == [type |-> "str", items |-> <<v>>]
RetTuple(vs) == [type |-> "tuple", items |-> vs]
RetList(vs) == [type |-> "list", items |-> vs]
RetInt == [type |-> "int", items |-> <<>>]

\* A function object: __module__, __qualname__, __annotations__ (parameters
\* in order, then 'return') and what its body does when invoked:
\*   "const": return `value`;  "dec": return its first argument minus one;
\*   "raise": raise an exception;  "reenter": call startup.call() and let
\*   its exception, if any, propagate;  "missing": the function has a
\*   parameter without default that the closure does not pass, so that the
\*   invocation raises TypeError;  "same": return its first argument.
Def(m, q, annos, ret, body, value) ==
    [module |-> m, qualname |-> q, annotations |-> annos, ret |-> ret,
     body |-> body, value |-> value]

(***************************************************************************)
(* The functions of the programs.  Module and qualified names are numbered *)
(* in lexicographical order.                                               *)
(***************************************************************************)
Catalogue ==
    [ \* test_lexicographical_order / test_join: writers and a joiner
      func1 |-> Def(1, 1, <<>>, RetStr("x"), "const", 1),
      func2 |-> Def(1, 2, <<>>, RetStr("x"), "const", 2),
      func3 |-> Def(1, 3, <<>>, RetStr("x"), "const", 3),
      func4 |-> Def(1, 4, <<>>, RetStr("y"), "const", 4),
      afunc_join |-> Def(1, 0, <<List("x", <<"x">>)>>, RetNone, "const", 0),
      plain |-> Def(1, 5, <<>>, RetNone, "const", 7),
      \* test_sequential_order and test_unsatisfable_dependency_2
      seq3 |-> Def(2, 3, <<Str("x", "x")>>, RetStr("y"), "dec", 0),
      seq2 |-> Def(2, 2, <<Str("y", "y")>>, RetStr("z"), "dec", 0),
      seq1 |-> Def(2, 1, <<Str("z", "z")>>, RetNone, "const", 0),
      cyc3 |-> Def(2, 4, <<Str("_", "y")>>, RetStr("x"), "dec", 0),
      \* test_multiple_return_1 / test_multiple_return_2
      func |-> Def(3, 1, <<>>, RetTuple(<<"x", "y", "z">>), "const",
                   <<11, 12, 13>>),
      func_x |-> Def(3, 4, <<Str("x", "x")>>, RetNone, "const", 0),
      func_y |-> Def(3, 5, <<Str("y", "y")>>, RetNone, "const", 0),
      func_z |-> Def(3, 6, <<Str("z", "z")>>, RetNone, "const", 0),
      func_repeat |-> Def(3, 3, <<>>, RetTuple(<<"x", "x", "x">>), "const",
                          <<1, 3, 2>>),
      func_collect |-> Def(3, 2, <<List("xs", <<"x">>)>>, RetNone, "const", 0),
      \* test_read_many_times: three parameters, two of them bound to 'x'
      func_xxy |-> Def(3, 7, <<Str("a", "x"), Str("b", "x"), Str("c", "y")>>,
                       RetNone, "const", 0),
      \* two function objects with one __module__ and __qualname__ (made by
      \* one factory, or two lambdas), and two such readers
      made1 |-> Def(4, 1, <<>>, RetStr("x"), "const", 1),
      made2 |-> Def(4, 1, <<>>, RetStr("x"), "const", 2),
      user1 |-> Def(4, 2, <<Str("x", "x")>>, RetStr("y"), "const", 5),
      user2 |-> Def(4, 2, <<Str("x", "x")>>, RetStr("y"), "const", 6),
      \* test_wrong_annotations, test_unsatisfable_dependency_1 and
      \* functions that fail or return a tuple of another length
      bad_arg |-> Def(5, 1, <<Str("a", "x"), Int1("b")>>, RetNone, "const", 0),
      bad_ret |-> Def(5, 2, <<Str("a", "y")>>, RetInt, "const", 0),
      foo |-> Def(5, 3, <<List("x", <<"x">>), Str("y", "y")>>, RetNone,
                  "const", 0),
      short |-> Def(5, 4, <<>>, RetTuple(<<"x", "y">>), "const", <<1>>),
      long |-> Def(5, 5, <<>>, RetTuple(<<"x", "y">>), "const", <<1, 2, 3>>),
      boom |-> Def(5, 6, <<>>, RetStr("x"), "raise", 0),
      ok |-> Def(5, 7, <<>>, RetNone, "const", 0),
      \* a function that calls startup.call() itself, and functions that are
      \* in the queue behind it
      again |-> Def(6, 1, <<>>, RetNone, "reenter", 0),
      after |-> Def(6, 2, <<>>, RetStr("x"), "const", 1),
      reader |-> Def(6, 3, <<Str("x", "x")>>, RetNone, "const", 0),
      \* test_writeto: one output variable, and the value is a tuple
      pair |-> Def(7, 1, <<>>, RetStr("x"), "const", <<1, 2>>),
      \* test_annotate_all_nonoptional_parameters: func1 .. func6 have no
      \* annotation; then functions whose parameters with a default are not
      \* annotated (their signatures are in Signatures below)
      na1 |-> Def(8, 1, <<>>, RetNone, "const", 0),
      na2 |-> Def(8, 2, <<>>, RetNone, "const", 0),
      na3 |-> Def(8, 3, <<>>, RetNone, "const", 0),
      na4 |-> Def(8, 4, <<>>, RetNone, "const", 0),
      na5 |-> Def(8, 5, <<>>, RetNone, "const", 0),
      na6 |-> Def(8, 6, <<>>, RetNone, "const", 0),
      opt1 |-> Def(8, 7, <<Str("x", "x")>>, RetNone, "const", 0),
      opt2 |-> Def(8, 8, <<Str("a", "x")>>, RetNone, "const", 0),
      kw1 |-> Def(8, 9, <<Str("b", "x")>>, RetNone, "const", 0),
      kw2 |-> Def(8, 10, <<Str("a", "x")>>, RetNone, "missing", 0),
      kw4 |-> Def(8, 11, <<Str("a", "x"), Str("c", "y")>>, RetNone, "const", 0),
      \* test_wrong_annotations and the test_wrong_anno of test_parse.py,
      \* with the well-formed annotations next to them
      in_tuple |-> Def(9, 1, <<Tuple("_", <<"x">>)>>, RetNone, "const", 0),
      in_list2 |-> Def(9, 2, <<List("_", <<"x", "y">>)>>, RetNone, "const", 0),
      in_int |-> Def(9, 3, <<Int1("_")>>, RetNone, "const", 0),
      in_list0 |-> Def(9, 4, <<List("_", <<>>)>>, RetNone, "const", 0),
      in_list_int |-> Def(9, 5, <<List("_", <<NonStr>>)>>, RetNone, "const", 0),
      in_second |-> Def(9, 6, <<Str("a", "x"), List("b", <<"x", "y">>)>>,
                        RetStr("z"), "const", 0),
      ret_int |-> Def(9, 7, <<>>, RetInt, "const", 0),
      ret_list0 |-> Def(9, 8, <<>>, RetList(<<>>), "const", 0),
      ret_list1 |-> Def(9, 9, <<>>, RetList(<<"x">>), "const", 0),
      ret_mixed |-> Def(9, 10, <<>>, RetTuple(<<NonStr, "x">>), "const", <<1, 2>>),
      ret_empty |-> Def(9, 11, <<>>, RetTuple(<<>>), "const", <<>>),
      in_str |-> Def(9, 12, <<Str("a", "x")>>, RetStr("y"), "const", 1),
      in_list1 |-> Def(9, 13, <<List("a", <<"x">>)>>,
                       RetTuple(<<"y", "z">>), "const", <<1, 2>>),
      \* examples/mul.py with 'x' for 'parser', 'y' for 'opts' and 'z' for
      \* 'all_opts': two functions that return nothing write 'y', one
      \* function collects 'y' and one reads its latest value
      add_argument_x |-> Def(10, 1, <<Str("parser", "x")>>, RetStr("y"),
                             "const", None),
      add_argument_y |-> Def(10, 2, <<Str("parser", "x")>>, RetStr("y"),
                             "const", None),
      collect_opts |-> Def(10, 3, <<List("all_opts", <<"y">>)>>, RetStr("z"),
                           "same", 0),
      parse_argv |-> Def(10, 4, <<Str("parser", "x"), Str("_", "y")>>,
                         RetNone, "const", 0) ]

\* inspect.getfullargspec(func) of the functions that have parameters
\* without annotation, keyword-only parameters or defaults: args, the
\* number of defaults (0 for None), kwonlyargs and the names in
\* kwonlydefaults (empty for None)
ArgSpec(args, defaults, kwonlyargs, kwonlydefaults) ==
    [args |-> args, defaults |-> defaults, kwonlyargs |-> kwonlyargs,
     kwonlydefaults |-> kwonlydefaults]

Signatures ==
    [ na1 |-> ArgSpec(<<"x">>, 0, <<>>, {}),                \* (x)
      na2 |-> ArgSpec(<<"x", "y">>, 1, <<>>, {}),           \* (x, y=1)
      na3 |-> ArgSpec(<<"x", "y", "z">>, 2, <<>>, {}),      \* (x, y=1, z=2)
      na4 |-> ArgSpec(<<>>, 0, <<"a">>, {}),                \* (*, a)
      na5 |-> ArgSpec(<<>>, 0, <<"a", "b">>, {"b"}),        \* (*, a, b=1)
      na6 |-> ArgSpec(<<>>, 0, <<"a", "b", "c">>, {"b", "c"}),
      opt1 |-> ArgSpec(<<"x", "y">>, 1, <<>>, {}),          \* (x: 'x', y=1)
      opt2 |-> ArgSpec(<<>>, 0, <<"a", "b">>, {"b"}),       \* (*, a: 'x', b=1)
      kw1 |-> ArgSpec(<<>>, 0, <<"a", "b">>, {"a"}),        \* (*, a=1, b: 'x')
      kw2 |-> ArgSpec(<<>>, 0, <<"a", "b">>, {"a"}),        \* (*, a: 'x'=1, b)
      kw4 |-> ArgSpec(<<>>, 0, <<"a", "b", "c">>, {"b"}) ]  \* (*, a:'x', b=1, c:'y')

\* the names of the parameters that __annotations__ holds, in order
Annotated(annos) == [i \in DOMAIN annos |-> annos[i].arg]

\* the argspec of the function object f: the other functions have
\* positional parameters only, all annotated
ArgSpecOf(f, func) ==
    [annotations |-> {f.annotations[i].arg : i \in DOMAIN f.annotations}] @@
    (IF func \in DOMAIN Signatures THEN Signatures[func]
     ELSE ArgSpec(Annotated(f.annotations), 0, <<>>, {}))

getfullargspec(func) == ArgSpecOf(Catalogue[func], func)

Programs ==
    [ join |-> {"func1", "func2", "func3", "func4", "afunc_join", "plain"},
      chain |-> {"seq3", "seq2", "seq1", "cyc3"},
      multi |-> {"func", "func_x", "func_y", "func_z", "func_repeat",
                 "func_collect", "func_xxy"},
      made |-> {"made1", "made2", "user1", "user2"},
      faulty |-> {"bad_arg", "bad_ret", "foo", "short", "long", "boom", "ok"},
      signatures |-> {"na1", "na2", "na3", "na4", "na5", "na6", "opt1",
                      "opt2", "kw1", "kw2", "kw4", "after"},
      annotations |-> {"in_tuple", "in_list2", "in_int", "in_list0",
                       "in_list_int", "in_second", "ret_int", "ret_list0",
                       "ret_list1", "ret_mixed", "ret_empty", "in_str",
                       "in_list1"},
      opts |-> {"add_argument_x", "add_argument_y", "collect_opts",
                "parse_argv"} ]

Names == {"x", "y", "z"}

\* The value call() is given for a keyword.
Supplied == [x |-> 3, y |-> 1, z |-> 9]

RECURSIVE SeqsOver(_, _)
SeqsOver(S, n) ==
    IF n = 0 THEN {<<>>}
    ELSE LET shorter == SeqsOver(S, n - 1)
         IN shorter \cup
            {Append(s, e) : s \in {t \in shorter : Len(t) = n - 1}, e \in S}

Range(s) == {s[i] : i \in DOMAIN s}
NoRepeat(s) == \A i, j \in DOMAIN s : i # j => s[i] # s[j]

\* The keyword arguments call() may be given: distinct names, in any order.
KwargsChoices ==
    {[i \in DOMAIN s |-> [name |-> s[i], value |-> Supplied[s[i]]]] :
        s \in {t \in SeqsOver(Names, MaxKwargs) : NoRepeat(t)}}

\* The orders in which a Python set of the variables S may iterate.
Orders(S) == {s \in SeqsOver(S, Cardinality(S)) :
                 Len(s) = Cardinality(S) /\ NoRepeat(s)}

(***************************************************************************)
(* class Variable                                                          *)
(***************************************************************************)
\* Variable.__init__ (the name is only used for logging)
Variable == [num_write_waits |-> 0, readers |-> <<>>, values |-> <<>>]

\* defaultdict(Variable).__getitem__: a missing name is inserted
getitem(vs, name) ==
    IF name \in DOMAIN vs THEN vs ELSE vs @@ (name :> Variable)

notify_will_write(var) == [var EXCEPT !.num_write_waits = @ + 1]

\* mutant: readable when no write is pending, values or not
readable_no_pending(var) == var.num_write_waits = 0

\* mutant: readable as soon as one value is written
readable_any_value(var) == var.values # <<>>

\* Variable.readable (its assertion num_write_waits >= 0 cannot fail: the
\* count starts at 0 and write() asserts it positive before it decrements)
readable(var) == var.num_write_waits = 0 /\ var.values # <<>>

\* mutant: the assertion of write is left out
write_asserts_nothing(var) == TRUE

\* mutant: the new value is put in front of the others
write_prepend(var, value) ==
    [var EXCEPT !.num_write_waits = @ - 1, !.values = <<value>> \o @]

\* mutant: a None is not kept in the history of values
write_skips_none(var, value) ==
    [var EXCEPT !.num_write_waits = @ - 1,
                !.values = IF value = None THEN @ ELSE Append(@, value)]

\* Variable.write: `asserts` is its assertion, `write` the rest of it
write_asserts(var) == var.num_write_waits > 0
write(var, value) ==
    [var EXCEPT !.num_write_waits = @ - 1, !.values = Append(@, value)]

\* mutant: the first value instead of the latest
read_latest_first(var) == var.values[1]

\* mutant: only the latest value instead of all of them
read_all_only_latest(var) == <<var.values[Len(var.values)]>>

\* Variable.read_latest and Variable.read_all, after their assertion
read_latest(var) == var.values[Len(var.values)]
read_all(var) == var.values

(***************************************************************************)
(* class Closure                                                           *)
(***************************************************************************)
\* Closure.__init__; `released` is TRUE once _release() deleted args,
\* writeto and num_read_ready_waits
Closure(func, args, writeto) ==
    [func |-> func, args |-> args, writeto |-> writeto,
     num_read_ready_waits |-> Len(args), released |-> FALSE]

\* Closure._key: (closure.func.__module__, closure.func.__qualname__)
KeyOfFunc(f) == <<f.module, f.qualname>>
_key(closure) == KeyOfFunc(Catalogue[closure.func])

\* the order of Python tuples
KeyLess(k1, k2) == k1[1] < k2[1] \/ (k1[1] = k2[1] /\ k1[2] < k2[2])

\* list.sort(key=Closure._key) is stable: equal keys keep their order.
\* A list of closures is a sequence of indices into the closures cl.
RECURSIVE InsertByKey(_, _, _)
InsertByKey(s, c, cl) ==
    IF s = <<>> THEN <<c>>
    ELSE IF KeyLess(_key(cl[c]), _key(cl[Head(s)])) THEN <<c>> \o s
    ELSE <<Head(s)>> \o InsertByKey(Tail(s), c, cl)

RECURSIVE StableSort(_, _)
StableSort(cs, cl) ==
    IF cs = <<>> THEN <<>>
    ELSE InsertByKey(StableSort(SubSeq(cs, 1, Len(cs) - 1), cl), cs[Len(cs)], cl)

\* mutant: the closures are left in the order they have
sort_none(cs, cl) == cs

\* Closure.sort
sort(cs, cl) == StableSort(cs, cl)

\* Closure.satisfied
closure_satisfied(c) == c.num_read_ready_waits = 0

\* mutant: a notification is accepted whatever the counter is
notify_read_ready_asserts_nothing(c) == TRUE

\* assert self.num_read_ready_waits > 0 of Closure.notify_read_ready
notify_read_ready_asserts(c) == c.num_read_ready_waits > 0

\* mutant: a notification leaves the counter as it is
notify_read_ready_stuck(c) == c

\* self.num_read_ready_waits -= 1 of Closure.notify_read_ready
notify_read_ready(c) == [c EXCEPT !.num_read_ready_waits = @ - 1]

(***************************************************************************)
(* _parse_args, _parse_arg, _parse_ret                                     *)
(***************************************************************************)
\* mutant: every element passes for a str
IsStr_any(item) == TRUE

\* isinstance(item, str)
IsStr(item) == item # NonStr

\* _parse_arg: the variable and the reader of one parameter annotation
_parse_arg(vs, anno) ==
    IF anno.type = "str"
    THEN [ok |-> TRUE, variables |-> getitem(vs, anno.items[1]),
          var |-> anno.items[1], read |-> "read_latest"]
    ELSE IF anno.type = "list" /\ Len(anno.items) = 1 /\ IsStr(anno.items[1])
    THEN [ok |-> TRUE, variables |-> getitem(vs, anno.items[1]),
          var |-> anno.items[1], read |-> "read_all"]
    ELSE [ok |-> FALSE, variables |-> vs, var |-> "", read |-> ""]

\* _parse_args: the loop over func.__annotations__ from parameter i on;
\* the variables looked up before a bad annotation stay in the table
RECURSIVE ParseArgsFrom(_, _, _, _)
ParseArgsFrom(annos, vs, i, acc) ==
    IF i > Len(annos)
    THEN [ok |-> TRUE, variables |-> vs, arg_read_var |-> acc]
    ELSE LET r == _parse_arg(vs, annos[i])
         IN IF ~r.ok
            THEN [ok |-> FALSE, variables |-> vs, arg_read_var |-> acc]
            ELSE ParseArgsFrom(annos, r.variables, i + 1,
                     Append(acc, [name |-> annos[i].arg, var |-> r.var,
                                  read |-> r.read]))

_parse_args(func, vs) == ParseArgsFrom(Catalogue[func].annotations, vs, 1, <<>>)

RECURSIVE GetItems(_, _)
GetItems(vs, names) ==
    IF names = <<>> THEN vs ELSE GetItems(getitem(vs, Head(names)), Tail(names))

\* mutant: one write is declared for a variable however often it is named
RECURSIVE NotifyWillWrites_distinct(_, _)
NotifyWillWrites_distinct(vs, names) ==
    IF names = <<>> THEN vs
    ELSE NotifyWillWrites_distinct(
             IF Head(names) \in Range(Tail(names)) THEN vs
             ELSE [vs EXCEPT ![Head(names)] = notify_will_write(@)],
             Tail(names))

\* for var in writeto: var.notify_will_write()
RECURSIVE NotifyWillWrites(_, _)
NotifyWillWrites(vs, names) ==
    IF names = <<>> THEN vs
    ELSE NotifyWillWrites(
             [vs EXCEPT ![Head(names)] = notify_will_write(@)], Tail(names))

\* _parse_ret: writeto is None, one variable or a tuple of variables
_parse_ret(func, vs) ==
    LET anno == Catalogue[func].ret
    IN IF anno.type = "none"
       THEN [ok |-> TRUE, variables |-> vs,
             writeto |-> [type |-> "none", vars |-> <<>>]]
       ELSE IF anno.type = "str"
       THEN [ok |-> TRUE,
             variables |-> NotifyWillWrites(GetItems(vs, anno.items), anno.items),
             writeto |-> [type |-> "single", vars |-> anno.items]]
       ELSE IF anno.type = "tuple" /\ \A i \in DOMAIN anno.items : IsStr(anno.items[i])
       THEN [ok |-> TRUE,
             variables |-> NotifyWillWrites(GetItems(vs, anno.items), anno.items),
             writeto |-> [type |-> "tuple", vars |-> anno.items]]
       ELSE [ok |-> FALSE, variables |-> vs,
             writeto |-> [type |-> "none", vars |-> <<>>]]

(***************************************************************************)
(* The Startup object and the histories, as one record.                    *)
(***************************************************************************)
Machine ==
    [funcs |-> funcs, variables |-> variables, closures |-> closures,
     satisfied |-> satisfied, released |-> released, pc |-> pc,
     result |-> result, raised |-> raised, reported |-> reported,
     added |-> added, log |-> log, batch |-> batch]

\* Startup.__init__
Fresh ==
    [funcs |-> {}, variables |-> <<>>, closures |-> <<>>, satisfied |-> <<>>,
     released |-> FALSE, pc |-> "idle", result |-> <<>>, raised |-> "",
     reported |-> {}, added |-> <<>>, log |-> <<>>, batch |-> <<>>]

Raise(m, exception) == [m EXCEPT !.raised = exception]

\* mutant: a closure is made a reader of a variable only once
RECURSIVE AppendReaders_once(_, _, _)
AppendReaders_once(vs, arg_read_var, closure) ==
    IF arg_read_var = <<>> THEN vs
    ELSE AppendReaders_once(
             [vs EXCEPT ![Head(arg_read_var).var].readers =
                            IF closure \in Range(@) THEN @
                            ELSE Append(@, closure)],
             Tail(arg_read_var), closure)

\* for _, var in arg_read_var: var.readers.append(closure)
RECURSIVE AppendReaders(_, _, _)
AppendReaders(vs, arg_read_var, closure) ==
    IF arg_read_var = <<>> THEN vs
    ELSE AppendReaders(
             [vs EXCEPT ![Head(arg_read_var).var].readers = Append(@, closure)],
             Tail(arg_read_var), closure)

\* mutant: the test for a function added twice is left out
already_added_never(m, func) == FALSE

\* if func in self.funcs
already_added(m, func) == func \in m.funcs

\* seq[:-n] of Python for 0 < n <= len(seq)
DropLast(s, n) == SubSeq(s, 1, Len(s) - n)

\* mutant: every parameter passes for annotated
_get_not_annotated_none(func) == <<>>

\* _get_not_annotated(func): the trailing len(defaults) positional and the
\* trailing len(kwonlydefaults) keyword-only parameters are left out
not_annotated(argspec) ==
    LET args == IF argspec.defaults # 0
                THEN DropLast(argspec.args, argspec.defaults)
                ELSE argspec.args
        kwonlyargs == IF argspec.kwonlydefaults # {}
                      THEN DropLast(argspec.kwonlyargs,
                                    Cardinality(argspec.kwonlydefaults))
                      ELSE argspec.kwonlyargs
    IN SelectSeq(args \o kwonlyargs,
                 LAMBDA arg : arg \notin argspec.annotations)

_get_not_annotated(func) == not_annotated(getfullargspec(func))

\* Startup.__call__(func): every function of the catalogue is callable
__call__(m, func) ==
    IF already_added(m, func) THEN Raise(m, "StartupException")
    ELSE IF _get_not_annotated(func) # <<>> THEN Raise(m, "StartupException")
    ELSE LET a == _parse_args(func, m.variables)
         IN IF ~a.ok
            THEN Raise([m EXCEPT !.variables = a.variables], "StartupException")
            ELSE LET r == _parse_ret(func, a.variables)
                 IN IF ~r.ok
                    THEN Raise([m EXCEPT !.variables = a.variables],
                               "StartupException")
                    ELSE LET closure == Closure(func, a.arg_read_var, r.writeto)
                             c == Len(m.closures) + 1
                         IN [m EXCEPT
                               !.variables =
                                   AppendReaders(r.variables, a.arg_read_var, c),
                               !.closures = Append(@, closure),
                               !.satisfied = IF closure_satisfied(closure)
                                             THEN Append(@, c) ELSE @,
                               !.funcs = @ \cup {func},
                               !.raised = "",
                               !.added = Append(@, func),
                               !.batch = IF closure_satisfied(closure)
                                         THEN (c :> 0) @@ @ ELSE @]

(***************************************************************************)
(* _notify_reader_writes and _write_values                                 *)
(***************************************************************************)
\* mutant: the reader is appended at every notification, satisfied or not
RECURSIVE NotifyReaders_every(_, _, _, _)
NotifyReaders_every(cl, readers, i, sat) ==
    IF i > Len(readers) THEN [raised |-> "", closures |-> cl, satisfied |-> sat]
    ELSE LET reader == readers[i]
         IN IF cl[reader].released
            THEN [raised |-> "AttributeError", closures |-> cl, satisfied |-> sat]
            ELSE IF ~notify_read_ready_asserts(cl[reader])
            THEN [raised |-> "AssertionError", closures |-> cl, satisfied |-> sat]
            ELSE NotifyReaders_every(
                     [cl EXCEPT ![reader] = notify_read_ready(@)], readers,
                     i + 1, Append(sat, reader))

\* for reader in var.readers: reader.notify_read_ready(); if
\* reader.satisfied: satisfied.append(reader)  -- from reader i on
RECURSIVE NotifyReaders(_, _, _, _)
NotifyReaders(cl, readers, i, sat) ==
    IF i > Len(readers) THEN [raised |-> "", closures |-> cl, satisfied |-> sat]
    ELSE LET reader == readers[i]
         IN IF cl[reader].released
            THEN [raised |-> "AttributeError", closures |-> cl, satisfied |-> sat]
            ELSE IF ~notify_read_ready_asserts(cl[reader])
            THEN [raised |-> "AssertionError", closures |-> cl, satisfied |-> sat]
            ELSE LET cl2 == [cl EXCEPT ![reader] = notify_read_ready(@)]
                 IN NotifyReaders(cl2, readers, i + 1,
                        IF closure_satisfied(cl2[reader])
                        THEN Append(sat, reader) ELSE sat)

\* for var in writeto: if var.readable: ...
RECURSIVE NotifyVars(_, _, _, _)
NotifyVars(vs, cl, writeto, sat) ==
    IF writeto = <<>> THEN [raised |-> "", closures |-> cl, satisfied |-> sat]
    ELSE IF readable(vs[Head(writeto)])
    THEN LET r == NotifyReaders(cl, vs[Head(writeto)].readers, 1, sat)
         IN IF r.raised # "" THEN r
            ELSE NotifyVars(vs, r.closures, Tail(writeto), r.satisfied)
    ELSE NotifyVars(vs, cl, Tail(writeto), sat)

\* _notify_reader_writes(writeto): writeto in its iteration order
_notify_reader_writes(writeto, vs, cl) ==
    LET r == NotifyVars(vs, cl, writeto, <<>>)
    IN IF r.raised # "" THEN r ELSE [r EXCEPT !.satisfied = sort(@, r.closures)]

\* mutant: the write of a keyword is not announced by notify_will_write
RECURSIVE WriteKwargs_unannounced(_, _, _)
WriteKwargs_unannounced(kw, vs, i) ==
    IF i > Len(kw) THEN [raised |-> "", variables |-> vs]
    ELSE LET vs1 == getitem(vs, kw[i].name)
         IN IF ~write_asserts(vs1[kw[i].name])
            THEN [raised |-> "AssertionError", variables |-> vs1]
            ELSE WriteKwargs_unannounced(kw,
                     [vs1 EXCEPT ![kw[i].name] = write(@, kw[i].value)], i + 1)

\* the loop of _write_values from keyword i on
RECURSIVE WriteKwargs(_, _, _)
WriteKwargs(kw, vs, i) ==
    IF i > Len(kw) THEN [raised |-> "", variables |-> vs]
    ELSE LET vs1 == getitem(vs, kw[i].name)
             vs2 == [vs1 EXCEPT ![kw[i].name] = notify_will_write(@)]
         IN IF ~write_asserts(vs2[kw[i].name])
            THEN [raised |-> "AssertionError", variables |-> vs2]
            ELSE WriteKwargs(kw,
                     [vs2 EXCEPT ![kw[i].name] = write(@, kw[i].value)], i + 1)

\* _write_values(kwargs, variables)
_write_values(kw, vs, cl) ==
    LET w == WriteKwargs(kw, vs, 1)
    IN IF w.raised # ""
       THEN [raised |-> w.raised, variables |-> w.variables, closures |-> cl,
             satisfied |-> <<>>]
       ELSE LET n == _notify_reader_writes([i \in DOMAIN kw |-> kw[i].name],
                                           w.variables, cl)
            IN [raised |-> n.raised, variables |-> w.variables,
                closures |-> n.closures, satisfied |-> n.satisfied]

(***************************************************************************)
(* Closure.call                                                            *)
(***************************************************************************)
\* kwargs = {arg.name: arg.read() for arg in self.args}, from argument i on;
\* read_latest and read_all assert that the variable is readable
RECURSIVE ReadArgs(_, _, _, _)
ReadArgs(vs, args, i, acc) ==
    IF i > Len(args) THEN [raised |-> "", kwargs |-> acc]
    ELSE IF ~readable(vs[args[i].var])
    THEN [raised |-> "AssertionError", kwargs |-> acc]
    ELSE ReadArgs(vs, args, i + 1,
             Append(acc, [name |-> args[i].name, var |-> args[i].var,
                          read |-> args[i].read,
                          value |-> IF args[i].read = "read_latest"
                                    THEN read_latest(vs[args[i].var])
                                    ELSE read_all(vs[args[i].var])]))

\* mutant: the exception of the body is swallowed
Body_returns(func, kw) == [raised |-> "", value |-> Catalogue[func].value]

\* what the body of the function object f does with the arguments kw
Returns(f, kw) ==
    IF f.body = "raise" THEN [raised |-> "Exception", value |-> 0]
    ELSE IF f.body = "missing" THEN [raised |-> "TypeError", value |-> 0]
    ELSE IF f.body = "dec" THEN [raised |-> "", value |-> kw[1].value - 1]
    ELSE IF f.body = "same" THEN [raised |-> "", value |-> kw[1].value]
    ELSE [raised |-> "", value |-> f.value]

\* out_value = self.func(kwargs): what the body of func returns
Body(func, kw) == Returns(Catalogue[func], kw)

Min(a, b) == IF a < b THEN a ELSE b

\* for var, value in zip(self.writeto, out_value): var.write(value), from
\* pair i on; zip stops at the shorter of the two
RECURSIVE WriteZip(_, _, _, _, _)
WriteZip(vs, names, values, i, wrote) ==
    IF i > Min(Len(names), Len(values))
    THEN [raised |-> "", variables |-> vs, wrote |-> wrote]
    ELSE IF ~write_asserts(vs[names[i]])
    THEN [raised |-> "AssertionError", variables |-> vs, wrote |-> wrote]
    ELSE WriteZip([vs EXCEPT ![names[i]] = write(@, values[i])], names, values,
                  i + 1, Append(wrote, [var |-> names[i], value |-> values[i]]))

\* mutant: the value returned for a single variable is discarded
WriteOut_discards(vs, writeto, out_value) ==
    IF writeto.type = "tuple"
    THEN WriteZip(vs, writeto.vars, out_value, 1, <<>>)
    ELSE [raised |-> "", variables |-> vs, wrote |-> <<>>]

\* the writes of Closure.call for each form of self.writeto
WriteOut(vs, writeto, out_value) ==
    IF writeto.type = "none"
    THEN [raised |-> "", variables |-> vs, wrote |-> <<>>]
    ELSE IF writeto.type = "single"
    THEN WriteZip(vs, writeto.vars, <<out_value>>, 1, <<>>)
    ELSE WriteZip(vs, writeto.vars, out_value, 1, <<>>)

\* mutant: the closure keeps its attributes
_release_nothing(c) == c

\* Closure._release
_release(c) == [c EXCEPT !.released = TRUE]

NotInvoked == [func |-> "", kwargs |-> <<>>, raised |-> FALSE, wrote |-> <<>>]

\* Closure.call(): `invoked` is the record of the invocation of self.func
\* (NotInvoked if an assertion fails first), `writeto` the returned set
call(vs, c) ==
    IF c.released
    THEN [raised |-> "AttributeError", variables |-> vs, invoked |-> NotInvoked,
          writeto |-> {}]
    ELSE IF ~closure_satisfied(c)
    THEN [raised |-> "AssertionError", variables |-> vs, invoked |-> NotInvoked,
          writeto |-> {}]
    ELSE LET a == ReadArgs(vs, c.args, 1, <<>>)
         IN IF a.raised # ""
            THEN [raised |-> a.raised, variables |-> vs, invoked |-> NotInvoked,
                  writeto |-> {}]
            ELSE LET b == Body(c.func, a.kwargs)
                 IN IF b.raised # ""
                    THEN [raised |-> b.raised, variables |-> vs,
                          invoked |-> [func |-> c.func, kwargs |-> a.kwargs,
                                       raised |-> TRUE, wrote |-> <<>>],
                          writeto |-> {}]
                    ELSE LET w == WriteOut(vs, c.writeto, b.value)
                         IN [raised |-> w.raised, variables |-> w.variables,
                             invoked |-> [func |-> c.func, kwargs |-> a.kwargs,
                                          raised |-> FALSE, wrote |-> w.wrote],
                             writeto |-> Range(c.writeto.vars)]

(***************************************************************************)
(* Startup.call                                                            *)
(***************************************************************************)
Fail(m, exception) == [m EXCEPT !.raised = exception, !.pc = "raised"]

\* the history of invocations: which closure invoked its function, what
\* the function was given and what was written for it
Logged(m, invoked, closure) ==
    IF invoked.func = "" THEN m
    ELSE [m EXCEPT !.log = Append(@, [closure |-> closure] @@ invoked)]

\* the batch number given to the closures appended to the queue
Enqueued(m, cs, n) ==
    [m EXCEPT !.satisfied = @ \o cs,
              !.batch = [c \in Range(cs) |-> n] @@ @]

\* mutant: the test for a released object is left out
hasattr_always(m) == TRUE

\* hasattr(self, 'funcs'): the attribute is there until Startup._release()
hasattr_funcs(m) == ~m.released

\* Startup.call up to its loop: the hasattr test, the variables of the
\* keywords, queue = Closure.sort(self.satisfied) (sorted in place, so the
\* queue is self.satisfied) and queue.extend(_write_values(...))
call_enter(m, kw) ==
    IF ~hasattr_funcs(m) THEN Fail(m, "StartupException")
    ELSE LET vs == GetItems(m.variables, [i \in DOMAIN kw |-> kw[i].name])
             w == _write_values(kw, vs, m.closures)
             m1 == [m EXCEPT !.satisfied = sort(@, m.closures),
                             !.variables = w.variables,
                             !.closures = w.closures]
         IN IF w.raised # "" THEN Fail(m1, w.raised)
            ELSE [Enqueued(m1, w.satisfied, 1) EXCEPT !.raised = "", !.pc = "loop"]

\* mutant: queue.pop() takes the closure at the end of the queue
pop_last(queue) ==
    [closure |-> queue[Len(queue)], queue |-> SubSeq(queue, 1, Len(queue) - 1)]

\* closure = queue.pop(0)
pop(queue) == [closure |-> Head(queue), queue |-> Tail(queue)]

\* mutant: the function stays in self.funcs
remove_nothing(fs, func) == fs

\* self.funcs.remove(closure.func)
remove(fs, func) == fs \ {func}

\* one iteration of the loop of Startup.call; `order` is the order in which
\* the set returned by closure.call() iterates
call_iterate(m, order) ==
    LET closure == pop(m.satisfied).closure
        func == m.closures[closure].func
        m1 == [m EXCEPT !.satisfied = pop(@).queue]
        r == call(m.variables, m.closures[closure])
        m2 == Logged([m1 EXCEPT !.variables = r.variables], r.invoked, closure)
    IN IF r.raised # "" THEN Fail(m2, r.raised)
       ELSE IF func \notin m.funcs
       THEN Fail([m2 EXCEPT !.closures[closure] = _release(@)], "KeyError")
       ELSE LET m3 == [m2 EXCEPT !.closures[closure] = _release(@),
                                 !.funcs = remove(@, func)]
                n == _notify_reader_writes(order, m3.variables, m3.closures)
                m4 == [m3 EXCEPT !.closures = n.closures]
            IN IF n.raised # "" THEN Fail(m4, n.raised)
               ELSE Enqueued(m4, n.satisfied, Len(m4.log) + 1)

\* Startup.call after its loop
call_exit(m) ==
    IF m.funcs # {}
    THEN [Fail(m, "StartupException") EXCEPT !.reported = m.funcs]
    ELSE IF \E name \in DOMAIN m.variables : ~readable(m.variables[name])
    THEN Fail(m, "AssertionError")
    ELSE [m EXCEPT !.result = [name \in DOMAIN m.variables |->
                                   read_latest(m.variables[name])],
                   !.released = TRUE, !.raised = "", !.pc = "returned"]

(***************************************************************************)
(* The state machine.                                                      *)
(***************************************************************************)
Becomes(m) ==
    /\ funcs' = m.funcs
    /\ variables' = m.variables
    /\ closures' = m.closures
    /\ satisfied' = m.satisfied
    /\ released' = m.released
    /\ pc' = m.pc
    /\ result' = m.result
    /\ raised' = m.raised
    /\ reported' = m.reported
    /\ added' = m.added
    /\ log' = m.log
    /\ batch' = m.batch

Init ==
    /\ program \in DOMAIN Programs
    /\ kwargs = <<>>
    /\ funcs = Fresh.funcs
    /\ variables = Fresh.variables
    /\ closures = Fresh.closures
    /\ satisfied = Fresh.satisfied
    /\ released = Fresh.released
    /\ pc = Fresh.pc
    /\ result = Fresh.result
    /\ raised = Fresh.raised
    /\ reported = Fresh.reported
    /\ added = Fresh.added
    /\ log = Fresh.log
    /\ batch = Fresh.batch
    /\ calls = 0
    /\ notified = 0

\* the host adds a function of its program: @startup / startup(func)
Add(func) ==
    /\ pc = "idle"
    /\ LET m == __call__(Machine, func)
       IN Len(m.added) <= MaxFuncs /\ Becomes(m)
    /\ UNCHANGED <<program, kwargs, calls, notified>>

\* the host enters startup.call(kw)
Call(kw) ==
    /\ pc = "idle"
    /\ kwargs' = kw
    /\ calls' = calls + 1
    /\ Becomes(call_enter(Machine, kw))
    /\ UNCHANGED <<program, notified>>

\* the set closure.call() returns, whose iteration order Python leaves open
WritetoSet(c) == IF c.released THEN {} ELSE Range(c.writeto.vars)

\* a function whose body enters startup.call() again
Reenters(func) == Catalogue[func].body = "reenter"

\* one iteration of `while queue:` (for a function that does not enter
\* call() again; Reenter below is the iteration for one that does)
Iterate ==
    /\ pc = "loop"
    /\ satisfied # <<>>
    /\ ~Reenters(closures[pop(satisfied).closure].func)
    /\ \E order \in Orders(WritetoSet(closures[pop(satisfied).closure])) :
           Becomes(call_iterate(Machine, order))
    /\ UNCHANGED <<program, kwargs, calls, notified>>

\* the loop has ended: call() raises or returns the values
Exit ==
    /\ pc = "loop"
    /\ satisfied = <<>>
    /\ Becomes(call_exit(Machine))
    /\ UNCHANGED <<program, kwargs, calls, notified>>

Next ==
    \/ \E func \in Programs[program] : Add(func)
    \/ \E kw \in KwargsChoices : Call(kw)
    \/ Iterate
    \/ Exit

Spec == Init /\ [][Next]_vars

(***************************************************************************)
(* A Startup object that is used again: call() is entered a second time    *)
(* after it has returned or raised, or from inside a function it invokes.  *)
(***************************************************************************)
Reusable ==
    [ partial |-> {"foo", "ok", "boom", "func4"},
      chain |-> {"seq3", "seq2", "seq1"},
      nested |-> {"again", "after", "reader", "ok"} ]

\* the record Closure.call makes of an invocation that ends in an exception
Raising(func) == [func |-> func, kwargs |-> <<>>, raised |-> TRUE, wrote |-> <<>>]

\* the host enters startup.call(kw) again after call() has returned or raised
CallAgain(kw) ==
    /\ pc \in {"returned", "raised"}
    /\ calls < MaxCalls
    /\ kwargs' = kw
    /\ calls' = calls + 1
    /\ Becomes(call_enter(Machine, kw))
    /\ UNCHANGED <<program, notified>>

\* one iteration of `while queue:` for a function without parameters whose
\* body enters startup.call(kw): the closure is popped and called, and the
\* inner call() starts on the same object; its loop and exit are Iterate
\* and Exit, and the exception it raises leaves the body, Closure.call and
\* the outer call() unhandled (the function is still in self.funcs, so the
\* inner call() cannot return)
Reenter(kw) ==
    /\ pc = "loop"
    /\ satisfied # <<>>
    /\ calls < MaxCalls
    /\ LET closure == pop(satisfied).closure
           func == closures[closure].func
       IN /\ Reenters(func)
          /\ closures[closure].args = <<>>
          /\ ~closures[closure].released
          /\ Becomes(call_enter(
                 Logged([Machine EXCEPT !.satisfied = pop(@).queue],
                        Raising(func), closure), kw))
    /\ kwargs' = kw
    /\ calls' = calls + 1
    /\ UNCHANGED <<program, notified>>

InitReuse ==
    /\ program \in DOMAIN Reusable
    /\ kwargs = <<>>
    /\ calls = 0
    /\ notified = 0
    /\ funcs = Fresh.funcs
    /\ variables = Fresh.variables
    /\ closures = Fresh.closures
    /\ satisfied = Fresh.satisfied
    /\ released = Fresh.released
    /\ pc = Fresh.pc
    /\ result = Fresh.result
    /\ raised = Fresh.raised
    /\ reported = Fresh.reported
    /\ added = Fresh.added
    /\ log = Fresh.log
    /\ batch = Fresh.batch

NextReuse ==
    \/ \E func \in Reusable[program] : Add(func)
    \/ \E kw \in KwargsChoices : Call(kw)
    \/ Iterate
    \/ Exit
    \/ \E kw \in KwargsChoices : CallAgain(kw)
    \/ \E kw \in KwargsChoices : Reenter(kw)

SpecReuse == InitReuse /\ [][NextReuse]_vars

(***************************************************************************)
(* One Variable on its own (test_variable.py): notify_will_write, write    *)
(* and the two reads are applied to it in any order.  The variable is the  *)
(* entry "v" of the table, `log` is the history of the values written,     *)
(* `result` what the last read returned and `raised` the assertion that    *)
(* failed in the last operation.                                           *)
(***************************************************************************)
MaxPending == 2     \* at most this many writes are pending
MaxValues == 3      \* at most this many values are written
Values == {1, 2, 3}

InitVariable ==
    /\ program = "variable"
    /\ variables = [v |-> Variable]
    /\ log = <<>>
    /\ result = <<>>
    /\ raised = ""
    /\ funcs = {}
    /\ closures = <<>>
    /\ satisfied = <<>>
    /\ released = FALSE
    /\ pc = "idle"
    /\ kwargs = <<>>
    /\ reported = {}
    /\ added = <<>>
    /\ batch = <<>>
    /\ calls = 0
    /\ notified = 0

Rest == <<program, funcs, closures, satisfied, released, pc, kwargs, reported,
          added, batch, calls, notified>>

\* var.notify_will_write()
VarNotifyWillWrite ==
    /\ variables.v.num_write_waits < MaxPending
    /\ variables' = [variables EXCEPT !.v = notify_will_write(@)]
    /\ raised' = ""
    /\ UNCHANGED <<log, result, Rest>>

\* var.write(value)
VarWrite(value) ==
    /\ Len(variables.v.values) < MaxValues
    /\ IF write_asserts(variables.v)
       THEN /\ variables' = [variables EXCEPT !.v = write(@, value)]
            /\ log' = Append(log, value)
            /\ raised' = ""
       ELSE /\ raised' = "AssertionError"
            /\ UNCHANGED <<variables, log>>
    /\ UNCHANGED <<result, Rest>>

\* var.read_latest() and var.read_all()
VarRead ==
    /\ IF readable(variables.v)
       THEN /\ result' = [read_latest |-> read_latest(variables.v),
                          read_all |-> read_all(variables.v)]
            /\ raised' = ""
       ELSE /\ raised' = "AssertionError"
            /\ UNCHANGED result
    /\ UNCHANGED <<variables, log, Rest>>

NextVariable ==
    \/ VarNotifyWillWrite
    \/ \E value \in Values : VarWrite(value)
    \/ VarRead

SpecVariable == InitVariable /\ [][NextVariable]_vars

(***************************************************************************)
(* A Closure on its own, as test_closure.py uses it: the closure of one    *)
(* function is made, its variables are written, it is notified and called. *)
(***************************************************************************)
Alone == {"foo", "func_xxy", "seq3", "plain", "pair", "func", "func_repeat",
          "boom"}

\* closure = Closure(func, args, writeto) over a fresh table of variables
InitClosure ==
    /\ program = "closure"
    /\ \E func \in Alone :
           LET m == __call__(Fresh, func)
           IN /\ funcs = m.funcs
              /\ variables = m.variables
              /\ closures = m.closures
              /\ satisfied = m.satisfied
              /\ released = m.released
              /\ pc = m.pc
              /\ result = {}
              /\ raised = m.raised
              /\ reported = m.reported
              /\ added = m.added
              /\ log = m.log
              /\ batch = m.batch
    /\ kwargs = <<>>
    /\ calls = 0
    /\ notified = 0

RestClosure == <<program, funcs, satisfied, released, pc, kwargs, reported,
                 added, batch, calls>>

\* var.notify_will_write(); var.write(value) on a variable of the table
ClosWrite(name) ==
    /\ Len(variables[name].values) < MaxValues
    /\ variables' = [variables EXCEPT
                         ![name] = write(notify_will_write(@), Supplied[name])]
    /\ raised' = ""
    /\ UNCHANGED <<closures, log, result, notified, RestClosure>>

\* closure.notify_read_ready()
ClosNotifyReadReady ==
    /\ IF closures[1].released
       THEN /\ raised' = "AttributeError"
            /\ UNCHANGED <<closures, notified>>
       ELSE IF ~notify_read_ready_asserts(closures[1])
       THEN /\ raised' = "AssertionError"
            /\ UNCHANGED <<closures, notified>>
       ELSE /\ closures' = [closures EXCEPT ![1] = notify_read_ready(@)]
            /\ notified' = notified + 1
            /\ raised' = ""
    /\ UNCHANGED <<variables, log, result, RestClosure>>

\* closure.call(): result is the set it returns
ClosCall ==
    /\ Len(log) < MaxCalls
    /\ LET r == call(variables, closures[1])
       IN /\ raised' = r.raised
          /\ variables' = r.variables
          /\ log' = IF r.invoked.func = "" THEN log
                    ELSE Append(log, [closure |-> 1] @@ r.invoked)
          /\ IF r.raised = ""
             THEN /\ closures' = [closures EXCEPT ![1] = _release(@)]
                  /\ result' = r.writeto
             ELSE UNCHANGED <<closures, result>>
    /\ UNCHANGED <<notified, RestClosure>>

NextClosure ==
    \/ \E name \in DOMAIN variables : ClosWrite(name)
    \/ ClosNotifyReadReady
    \/ ClosCall

SpecClosure == InitClosure /\ [][NextClosure]_vars

(***************************************************************************)
(* What the histories say.                                                 *)
(***************************************************************************)
LogFuncs(l) == [i \in DOMAIN l |-> l[i].func]
Invocations(func) == Cardinality({i \in DOMAIN log : log[i].func = func})
Invoked == {log[i].func : i \in DOMAIN log}
HasInputs(func) == Catalogue[func].annotations # <<>>
Occurrences(s, e) == Cardinality({i \in DOMAIN s : s[i] = e})
KwargNames == {kwargs[i].name : i \in DOMAIN kwargs}

\* the variables the return annotation of an added function names
Outputs(func) == Catalogue[func].ret.items

\* the writes declared for a variable: one per occurrence in the return
\* annotation of an added function, one for a keyword of call()
RECURSIVE OutputOccurrences(_, _)
OutputOccurrences(fs, name) ==
    IF fs = <<>> THEN 0
    ELSE Occurrences(Outputs(Head(fs)), name) + OutputOccurrences(Tail(fs), name)

DeclaredWrites(name) ==
    OutputOccurrences(added, name) + (IF name \in KwargNames THEN 1 ELSE 0)

WriterTasks(name) == {f \in Range(added) : Occurrences(Outputs(f), name) > 0}

\* the values a sequence of writes gave to one variable
RECURSIVE ValuesFor(_, _)
ValuesFor(wrote, name) ==
    IF wrote = <<>> THEN <<>>
    ELSE (IF Head(wrote).var = name THEN <<Head(wrote).value>> ELSE <<>>)
         \o ValuesFor(Tail(wrote), name)

\* the values written to a variable by the keywords of call() and then by
\* the first k invocations, in the order of execution
RECURSIVE Written(_, _)
Written(name, k) ==
    IF k = 0
    THEN ValuesFor([i \in DOMAIN kwargs |->
                       [var |-> kwargs[i].name, value |-> kwargs[i].value]], name)
    ELSE Written(name, k - 1) \o ValuesFor(log[k].wrote, name)

Last(s) == s[Len(s)]

(***************************************************************************)
(* C1                                                                      *)
(***************************************************************************)
\* C1: no added function is invoked more than once, only added functions
\* are invoked, and when call() has returned every added function has been
\* invoked exactly once and self.funcs is empty.
ExactlyOnce ==
    /\ \A func \in Range(added) : Invocations(func) <= 1
    /\ Invoked \subseteq Range(added)
    /\ pc = "returned" =>
          /\ \A func \in Range(added) : Invocations(func) = 1
          /\ \A i \in DOMAIN log : ~log[i].raised
          /\ funcs = {}

\* call() returned after running a chain of three dependent functions
ExactlyOnceWitness ==
    /\ pc = "returned"
    /\ Len(added) >= 3
    /\ Len(log) = Len(added)
    /\ \E func \in Range(added) : HasInputs(func)

(***************************************************************************)
(* C2                                                                      *)
(***************************************************************************)
\* C2: when a function is invoked, every write declared for each of its
\* input variables (one per occurrence in the return annotation of an added
\* function, one for a keyword of call()) has been performed before, and
\* there is at least one.
DependencyOrder ==
    \A i \in DOMAIN log : \A a \in DOMAIN log[i].kwargs :
        LET name == log[i].kwargs[a].var
        IN /\ DeclaredWrites(name) >= 1
           /\ Len(Written(name, i - 1)) = DeclaredWrites(name)

\* a function has read a variable that a keyword and a function with
\* inputs of its own both write
DependencyOrderWitness ==
    \E i \in DOMAIN log : \E a \in DOMAIN log[i].kwargs :
        LET name == log[i].kwargs[a].var
        IN /\ name \in KwargNames
           /\ \E w \in WriterTasks(name) : HasInputs(w)

(***************************************************************************)
(* C5                                                                      *)
(***************************************************************************)
KeyOf(func) == _key([func |-> func])

\* C5: a function with inputs is invoked only after every added function
\* without inputs, and the functions without inputs are invoked in
\* ascending order of their keys.
ZeroInputFirst ==
    /\ \A i \in DOMAIN log : HasInputs(log[i].func) =>
           \A func \in Range(added) : ~HasInputs(func) =>
               \E j \in 1..(i - 1) : log[j].func = func
    /\ \A i, j \in DOMAIN log :
           (i < j /\ ~HasInputs(log[i].func) /\ ~HasInputs(log[j].func)) =>
               ~KeyLess(KeyOf(log[j].func), KeyOf(log[i].func))

\* two functions without inputs, added in descending order of their keys,
\* have run before a function of a smaller key that the keywords satisfied
ZeroInputFirstWitness ==
    /\ Len(log) >= 3
    /\ ~HasInputs(log[1].func) /\ ~HasInputs(log[2].func)
    /\ HasInputs(log[3].func)
    /\ batch[log[3].closure] = 1
    /\ KeyLess(KeyOf(log[3].func), KeyOf(log[1].func))
    /\ log[2].closure < log[1].closure
    /\ log[3].closure < log[2].closure

(***************************************************************************)
(* C6                                                                      *)
(***************************************************************************)
\* the closures that have been taken from the queue, then those still in it
QueueOrder == [i \in DOMAIN log |-> log[i].closure] \o satisfied

\* the variables the n-th batch was enqueued for: the keywords for batch 1,
\* the variables of closure.call() of the (n-1)-th invocation for batch n
BatchCause(n) ==
    IF n = 1 THEN KwargNames ELSE {log[n - 1].wrote[k].var : k \in DOMAIN log[n - 1].wrote}

\* C6: once call() is in its loop, the closures are invoked in the order
\* of the queue; the queue holds the batches in the order they were
\* appended and every batch in ascending order of the keys; batch 0 is the
\* functions without inputs, a later batch is made of readers of the
\* variables just written, and a satisfied closure that has not run is in
\* the queue, once.
BatchFifo ==
    pc # "idle" =>
        /\ \A i, j \in DOMAIN QueueOrder : i < j =>
               \/ batch[QueueOrder[i]] < batch[QueueOrder[j]]
               \/ /\ batch[QueueOrder[i]] = batch[QueueOrder[j]]
                  /\ ~KeyLess(_key(closures[QueueOrder[j]]),
                              _key(closures[QueueOrder[i]]))
        /\ \A c \in DOMAIN batch :
               /\ batch[c] <= Len(log) + 1
               /\ batch[c] = 0 <=> closures[c].args = <<>>
               /\ batch[c] >= 1 => \E a \in DOMAIN closures[c].args :
                                       closures[c].args[a].var \in BatchCause(batch[c])
        /\ pc = "loop" =>
               \A c \in DOMAIN closures :
                   (~closures[c].released /\ closure_satisfied(closures[c])) =>
                       Occurrences(satisfied, c) = 1

\* a closure of a larger key ran before a closure of a smaller key of a
\* later batch, and one batch of two closures was added in descending order
BatchFifoWitness ==
    /\ \E i, j \in DOMAIN log :
           /\ i < j
           /\ 1 <= batch[log[i].closure]
           /\ batch[log[i].closure] < batch[log[j].closure]
           /\ KeyLess(KeyOf(log[j].func), KeyOf(log[i].func))
    /\ \E i, j \in DOMAIN log :
           /\ i < j
           /\ batch[log[i].closure] = batch[log[j].closure]
           /\ batch[log[i].closure] >= 2
           /\ log[j].closure < log[i].closure

(***************************************************************************)
(* C7                                                                      *)
(***************************************************************************)
\* C7: a function with a parameter annotated ['v'] is invoked after every
\* added function that writes v has returned, and is given the values
\* written to v in the order they were written: as many as were declared,
\* which is one per writer when no writer names v twice and no keyword
\* supplies v.
JoinSemantics ==
    \A i \in DOMAIN log : \A a \in DOMAIN log[i].kwargs :
        LET arg == log[i].kwargs[a]
        IN arg.read = "read_all" =>
               /\ \A w \in WriterTasks(arg.var) :
                      \E j \in 1..(i - 1) : log[j].func = w /\ ~log[j].raised
               /\ arg.value = Written(arg.var, i - 1)
               /\ Len(arg.value) = DeclaredWrites(arg.var)
               /\ (arg.var \notin KwargNames
                   /\ \A w \in WriterTasks(arg.var) :
                          Occurrences(Outputs(w), arg.var) = 1)
                  => Len(arg.value) = Cardinality(WriterTasks(arg.var))

\* three writers were added in another order than they ran, and the joiner
\* was given their three values
JoinSemanticsWitness ==
    \E i \in DOMAIN log : \E a \in DOMAIN log[i].kwargs :
        /\ log[i].kwargs[a].read = "read_all"
        /\ log[i].kwargs[a].var \notin KwargNames
        /\ Cardinality(WriterTasks(log[i].kwargs[a].var)) = 3
        /\ log[i].kwargs[a].value = <<1, 2, 3>>
        /\ added[1] = "func3"

(***************************************************************************)
(* C8                                                                      *)
(***************************************************************************)
\* C8: a parameter annotated 'v' is given the value written to v last; the
\* dict call() returns has every variable with the value written to it
\* last; the chain x -> y -> z with x = 3 sees 3, 2, 1 and returns
\* x = 3, y = 2, z = 1.
LatestValue ==
    /\ \A i \in DOMAIN log : \A a \in DOMAIN log[i].kwargs :
           log[i].kwargs[a].read = "read_latest" =>
               /\ Written(log[i].kwargs[a].var, i - 1) # <<>>
               /\ log[i].kwargs[a].value = Last(Written(log[i].kwargs[a].var, i - 1))
    /\ pc = "returned" =>
           /\ DOMAIN result = DOMAIN variables
           /\ \A name \in DOMAIN variables :
                  /\ Written(name, Len(log)) # <<>>
                  /\ result[name] = Last(Written(name, Len(log)))
    /\ (/\ pc \in {"returned", "raised"}
        /\ Range(added) = {"seq3", "seq2", "seq1"}
        /\ Len(added) = 3
        /\ kwargs = <<[name |-> "x", value |-> 3]>>)
       => /\ pc = "returned"
          /\ result = [x |-> 3, y |-> 2, z |-> 1]
          /\ LogFuncs(log) = <<"seq3", "seq2", "seq1">>
          /\ [i \in DOMAIN log |-> log[i].kwargs[1].value] = <<3, 2, 1>>

\* the chain, added in the order seq1, seq2, seq3, has run with x = 3
LatestValueWitness ==
    /\ pc = "returned"
    /\ added = <<"seq1", "seq2", "seq3">>
    /\ kwargs = <<[name |-> "x", value |-> 3]>>
    /\ Len(log) = 3

(***************************************************************************)
(* C10                                                                     *)
(***************************************************************************)
\* the cycle of test_unsatisfable_dependency_2: x -> y, y -> z, y -> x
Cycle ==
    /\ Range(added) = {"seq3", "seq2", "cyc3"}
    /\ Len(added) = 3
    /\ kwargs = <<>>
    /\ pc # "idle"

\* C10: when the queue is empty and a function is still in self.funcs,
\* call() raises StartupException and names exactly the added functions
\* that were never invoked; for the cycle without keywords nothing is
\* invoked and the three functions are named.
UnsatisfiableReport ==
    /\ [][(pc = "loop" /\ satisfied = <<>> /\ funcs # {}) =>
              /\ pc' = "raised"
              /\ raised' = "StartupException"
              /\ reported' = Range(added) \ Invoked
              /\ reported' # {}
              /\ log' = log]_vars
    /\ [](Cycle => /\ log = <<>>
                   /\ pc \in {"loop", "raised"}
                   /\ pc = "raised" => /\ raised = "StartupException"
                                       /\ reported = {"seq3", "seq2", "cyc3"})

\* call() has raised for some functions after it had invoked others
UnsatisfiableReportWitness ==
    /\ pc = "raised"
    /\ raised = "StartupException"
    /\ reported # {}
    /\ Invoked # {}
    /\ Len(added) >= 3

(***************************************************************************)
(* C3                                                                      *)
(***************************************************************************)
\* A whole use of a fresh Startup object, for comparison: the functions fs
\* are added in this order, call() is given kw and runs to its end.  Where
\* the iteration order of a set is open, one order is taken.
RECURSIVE AddAll(_, _)
AddAll(m, fs) == IF fs = <<>> THEN m ELSE AddAll(__call__(m, Head(fs)), Tail(fs))

RECURSIVE RunLoop(_)
RunLoop(m) ==
    IF m.pc # "loop" THEN m
    ELSE IF m.satisfied = <<>> THEN call_exit(m)
    ELSE RunLoop(call_iterate(m,
             CHOOSE order \in Orders(WritetoSet(m.closures[pop(m.satisfied).closure])) :
                 TRUE))

Run(fs, kw) == RunLoop(call_enter(AddAll(Fresh, fs), kw))

\* C3: when call() has ended, the same functions added in any other order
\* and called with the same keywords are invoked in the same sequence, and
\* return the same dict if call() returned.
RegistrationOrderDeterminism ==
    pc \in {"returned", "raised"} =>
        \A fs \in Orders(Range(added)) :
            /\ LogFuncs(Run(fs, kwargs).log) = LogFuncs(log)
            /\ pc = "returned" => /\ Run(fs, kwargs).pc = "returned"
                                  /\ Run(fs, kwargs).result = result

(***************************************************************************)
(* C4                                                                      *)
(***************************************************************************)
\* C4: two different functions added to one Startup have different keys,
\* and of two closures of one batch the one that runs first has the
\* strictly smaller key.
KeyTotalOrder ==
    /\ \A c, d \in DOMAIN closures :
           closures[c].func # closures[d].func =>
               _key(closures[c]) # _key(closures[d])
    /\ pc # "idle" =>
           \A i, j \in DOMAIN QueueOrder :
               (i < j /\ batch[QueueOrder[i]] = batch[QueueOrder[j]]) =>
                   KeyLess(_key(closures[QueueOrder[i]]),
                           _key(closures[QueueOrder[j]]))

(***************************************************************************)
(* C9                                                                      *)
(***************************************************************************)
\* C9: when call() has ended with every added function invoked (there is
\* one at least) and none of them failed, it has returned, and the dict
\* holds exactly the readable variables of the table, each with its latest
\* value.
OutputDomain ==
    (/\ pc \in {"returned", "raised"}
     /\ added # <<>>
     /\ Len(log) = Len(added)
     /\ funcs = {}
     /\ satisfied = <<>>
     /\ \A i \in DOMAIN log : ~log[i].raised)
    => /\ pc = "returned"
       /\ DOMAIN result = {name \in DOMAIN variables : readable(variables[name])}
       /\ \A name \in DOMAIN result :
              result[name] = Last(variables[name].values)

(***************************************************************************)
(* C11                                                                     *)
(***************************************************************************)
\* the variables the parameters of an added function read
Inputs(func) ==
    {Catalogue[func].annotations[i].items[1] :
        i \in DOMAIN Catalogue[func].annotations}

\* the variables V and every variable a writer of one of them reads, and
\* so on
RECURSIVE Reach(_)
Reach(V) ==
    LET more == V \cup UNION {Inputs(w) : w \in UNION {WriterTasks(v) : v \in V}}
    IN IF more = V THEN V ELSE Reach(more)

\* the variables a function depends on, directly or transitively
DependsOn(func) == Reach(Inputs(func))

OnCycle(name) == \E w \in WriterTasks(name) : name \in DependsOn(w)
Unsupplied(name) == WriterTasks(name) = {} /\ name \notin KwargNames

Unsatisfiable ==
    \E func \in Range(added) : \E name \in DependsOn(func) :
        OnCycle(name) \/ Unsupplied(name)

\* no added function raises, and a function with a tuple return annotation
\* returns as many elements as the annotation names
WellBehaved ==
    \A func \in Range(added) :
        /\ Catalogue[func].body # "raise"
        /\ Catalogue[func].ret.type = "tuple" =>
               Len(Catalogue[func].value) = Len(Catalogue[func].ret.items)

\* C11: when call() has ended and the added functions are well behaved,
\* it has raised the "cannot satisfy dependency" StartupException exactly
\* if an added function depends on a variable that is on a cycle or that
\* no added function writes and no keyword supplies; otherwise it has
\* returned and every added function was invoked.  foo with y supplied
\* and x not is such a failure.
FailureCharacterisation ==
    (pc \in {"returned", "raised"} /\ WellBehaved) =>
        /\ (pc = "raised" /\ raised = "StartupException" /\ reported # {})
               <=> Unsatisfiable
        /\ ~Unsatisfiable =>
               /\ pc = "returned"
               /\ \A func \in Range(added) : Invocations(func) = 1
        /\ (added = <<"foo">> /\ kwargs = <<[name |-> "y", value |-> 1]>>)
               => /\ Unsatisfiable
                  /\ reported = {"foo"}

(***************************************************************************)
(* C12                                                                     *)
(***************************************************************************)
\* C12: once call() has returned (Startup._release() has run), entering
\* call() again raises StartupException without a new report of unsatisfied
\* dependencies, and invokes no function, writes no variable and returns
\* nothing.
SingleUseAfterSuccess ==
    [][(released /\ calls' # calls) =>
          /\ pc' = "raised"
          /\ raised' = "StartupException"
          /\ reported' = reported
          /\ log' = log
          /\ variables' = variables
          /\ funcs' = funcs
          /\ satisfied' = satisfied
          /\ result' = result
          /\ released']_vars

\* call() returned after it had invoked two functions, and was refused when
\* it was entered again with a keyword
SingleUseAfterSuccessWitness ==
    /\ released
    /\ pc = "raised"
    /\ raised = "StartupException"
    /\ calls = 2
    /\ Len(log) >= 2
    /\ kwargs # <<>>

(***************************************************************************)
(* C13                                                                     *)
(***************************************************************************)
\* C13: once call() has raised, entering call() again raises
\* StartupException at once: no function is invoked, no variable is
\* written, and it does not return.
SingleUseAfterFailure ==
    [][(pc = "raised" /\ calls' # calls) =>
          /\ pc' = "raised"
          /\ raised' = "StartupException"
          /\ log' = log
          /\ variables' = variables]_vars

(***************************************************************************)
(* C14                                                                     *)
(***************************************************************************)
\* a function invoked by call() has entered call() on the same object
Reentered == \E i \in DOMAIN log : Reenters(log[i].func)

\* C14: the call() a function enters while call() is in progress raises
\* StartupException at once, without writing a variable or changing the
\* queue, and from then on nothing is taken from the queue and no function
\* is invoked.
NoReentrantUse ==
    /\ [][(~Reentered /\ Reentered') =>
              /\ pc' = "raised"
              /\ raised' = "StartupException"
              /\ reported' = {}
              /\ variables' = variables
              /\ satisfied' = Tail(satisfied)]_vars
    /\ [][Reentered => (log' = log /\ satisfied' = satisfied)]_vars

(***************************************************************************)
(* C15                                                                     *)
(***************************************************************************)
\* the function at the head of the queue will raise when it is invoked
HeadRaises ==
    /\ pc = "loop"
    /\ satisfied # <<>>
    /\ Catalogue[closures[Head(satisfied)].func].body = "raise"

\* C15: when the function at the head of the queue raises, the iteration
\* ends call() with that exception: the function was invoked, no variable
\* is written, the function stays in self.funcs, no closure is changed or
\* released (its arguments, writeto and counter stay), the Startup object
\* is not released, the rest of the queue stays; and once call() has
\* raised no function is invoked.
FailingTaskAborts ==
    /\ [][HeadRaises =>
              /\ pc' = "raised"
              /\ raised' = "Exception"
              /\ Len(log') = Len(log) + 1
              /\ Last(log').func = closures[Head(satisfied)].func
              /\ Last(log').raised
              /\ variables' = variables
              /\ funcs' = funcs
              /\ closures[Head(satisfied)].func \in funcs'
              /\ closures' = closures
              /\ ~closures'[Head(satisfied)].released
              /\ ~released'
              /\ satisfied' = Tail(satisfied)]_vars
    /\ [][pc = "raised" => log' = log]_vars

\* a function raised after another had written its variables, with a
\* third still in the queue
FailingTaskAbortsWitness ==
    /\ pc = "raised"
    /\ raised = "Exception"
    /\ Len(log) >= 2
    /\ Last(log).raised
    /\ satisfied # <<>>
    /\ \E name \in DOMAIN variables : variables[name].values # <<>>

(***************************************************************************)
(* C16                                                                     *)
(***************************************************************************)
\* C16: adding a function that is in self.funcs raises StartupException
\* and changes nothing else of the Startup object (variables, pending
\* writes, readers, closures, self.funcs, self.satisfied); no function is
\* in the list of added functions twice or invoked twice, and when call()
\* has returned every added function has been invoked once.
DuplicateRegistration ==
    /\ pc = "idle" =>
           \A func \in funcs :
               __call__(Machine, func) = Raise(Machine, "StartupException")
    /\ NoRepeat(added)
    /\ \A func \in Range(added) : Invocations(func) <= 1
    /\ pc = "returned" =>
           /\ Len(log) = Len(added)
           /\ Range(LogFuncs(log)) = Range(added)

\* a function was added a second time, and refused, after three functions
\* with variables had been added
DuplicateRegistrationWitness ==
    /\ program = "chain"
    /\ pc = "idle"
    /\ raised = "StartupException"
    /\ Len(added) = 3

(***************************************************************************)
(* C17                                                                     *)
(***************************************************************************)
\* C17: for a variable that a keyword of call() supplies and for which the
\* added functions declare k >= 1 writes, the value of the keyword is the
\* first of its history, the variable is not readable while its history
\* has fewer than k + 1 values, and a function that reads it is invoked
\* when k + 1 values have been written.
InitialValueIsWriter ==
    \A name \in KwargNames :
        LET k == OutputOccurrences(added, name)
            var == variables[name]
        IN k >= 1 =>
               /\ var.values # <<>>
               /\ var.values[1] = Supplied[name]
               /\ Len(var.values) < k + 1 => ~readable(var)
               /\ readable(var) => Len(var.values) = k + 1
               /\ \A i \in DOMAIN log : \A a \in DOMAIN log[i].kwargs :
                      log[i].kwargs[a].var = name =>
                          /\ Len(Written(name, i - 1)) = k + 1
                          /\ Written(name, i - 1)[1] = Supplied[name]

\* a function has read a variable that a keyword supplied and two added
\* functions wrote
InitialValueIsWriterWitness ==
    \E i \in DOMAIN log : \E a \in DOMAIN log[i].kwargs :
        /\ log[i].kwargs[a].var \in KwargNames
        /\ Cardinality(WriterTasks(log[i].kwargs[a].var)) >= 2
        /\ Len(variables[log[i].kwargs[a].var].values) >= 3

(***************************************************************************)
(* C18                                                                     *)
(***************************************************************************)
\* C18: a variable is readable exactly when no write is pending and its
\* history is not empty; no variable leaves the table; a readable variable
\* stays readable; and a variable becomes readable in a step that performs
\* its pending writes, all of them.
ReadableMonotone ==
    /\ [](\A name \in DOMAIN variables :
             readable(variables[name]) <=>
                 /\ variables[name].num_write_waits = 0
                 /\ Len(variables[name].values) > 0)
    /\ [][\A name \in DOMAIN variables :
             /\ name \in DOMAIN variables'
             /\ readable(variables[name]) => readable(variables'[name])
             /\ (~readable(variables[name]) /\ readable(variables'[name])) =>
                    /\ variables[name].num_write_waits >= 1 \/ name \in KwargNames'
                    /\ variables'[name].num_write_waits = 0
                    /\ Len(variables'[name].values) > Len(variables[name].values)]_vars

\* a variable written twice is readable while another that has a value is
\* still waiting for a write
ReadableMonotoneWitness ==
    \E n1, n2 \in DOMAIN variables :
        /\ readable(variables[n1])
        /\ Len(variables[n1].values) >= 2
        /\ ~readable(variables[n2])
        /\ variables[n2].values # <<>>
        /\ pc = "loop"

(***************************************************************************)
(* C19                                                                     *)
(***************************************************************************)
\* C19: a variable to which nothing was written is not readable; a
\* variable with a pending write is not readable, whatever was written to
\* it before; when no write is pending and a value was written the
\* variable is readable, read_latest returns the value written last and
\* read_all the values written, in the order they were written; and a
\* read returned just that.
VariableOperations ==
    /\ log = <<>> => ~readable(variables.v)
    /\ variables.v.num_write_waits > 0 => ~readable(variables.v)
    /\ (variables.v.num_write_waits = 0 /\ log # <<>>) =>
           /\ readable(variables.v)
           /\ read_latest(variables.v) = Last(log)
           /\ read_all(variables.v) = log
    /\ result # <<>> =>
           /\ result.read_all = SubSeq(log, 1, Len(result.read_all))
           /\ result.read_latest = Last(result.read_all)

\* 1, 2 and 3 were written, each after its notify_will_write and a read of
\* the values before it, and then read
VariableOperationsWitness ==
    /\ variables.v.num_write_waits = 0
    /\ log = <<1, 2, 3>>
    /\ result = [read_latest |-> 3, read_all |-> <<1, 2, 3>>]
    /\ raised = ""

(***************************************************************************)
(* C20                                                                     *)
(***************************************************************************)
\* C20: the number of pending writes is never negative; a write when it
\* is 0 fails with AssertionError and leaves the variable as it was; any
\* other write takes one from the number and appends its value, and only
\* that, to the history.
WritePrecondition ==
    /\ [](\A name \in DOMAIN variables : variables[name].num_write_waits >= 0)
    /\ [][\A value \in Values : VarWrite(value) =>
             IF variables.v.num_write_waits = 0
             THEN /\ raised' = "AssertionError"
                  /\ variables' = variables
             ELSE /\ raised' = ""
                  /\ variables'.v.num_write_waits = variables.v.num_write_waits - 1
                  /\ variables'.v.values = Append(variables.v.values, value)
                  /\ variables'.v.readers = variables.v.readers]_vars

\* a write failed after the two writes that had been announced
WritePreconditionWitness ==
    /\ raised = "AssertionError"
    /\ variables.v.num_write_waits = 0
    /\ Len(variables.v.values) = 2

(***************************************************************************)
(* C21  Read counter.  A closure built with n arguments is not satisfied   *)
(* after fewer than n accepted notifications and is satisfied after n; a   *)
(* notification at counter 0 fails with an assertion and leaves the        *)
(* counter at 0; the counter only decreases and is never negative.         *)
(***************************************************************************)
Bindings(func) == Len(Catalogue[func].annotations)

ReadCounter ==
    /\ [](~closures[1].released =>
             /\ closures[1].num_read_ready_waits >= 0
             /\ notified < Bindings(closures[1].func)
                    => ~closure_satisfied(closures[1])
             /\ notified = Bindings(closures[1].func)
                    => closure_satisfied(closures[1])
             /\ notified <= Bindings(closures[1].func))
    /\ [][~closures'[1].released =>
             closures'[1].num_read_ready_waits
                 <= closures[1].num_read_ready_waits]_vars
    /\ [][(ClosNotifyReadReady /\ ~closures[1].released
             /\ closures[1].num_read_ready_waits = 0) =>
                /\ raised' = "AssertionError"
                /\ closures' = closures
                /\ notified' = notified]_vars

\* the fourth notification of a closure with three arguments has failed
\* (its variables are readable, so the assertion is not one of call())
ReadCounterWitness ==
    /\ program = "closure"
    /\ closures[1].func = "func_xxy"
    /\ notified = 3
    /\ ~closures[1].released
    /\ closures[1].num_read_ready_waits = 0
    /\ raised = "AssertionError"
    /\ \A name \in DOMAIN variables : readable(variables[name])

(***************************************************************************)
(* C22  Ready queue.  After registration and at every boundary of the loop *)
(* of call(), a closure is in the queue iff it is satisfied and has not    *)
(* run, the queue holds no closure twice, and a closure that enters the    *)
(* queue has never been in it before -- also one that reads one variable   *)
(* through several parameters.                                             *)
(***************************************************************************)
Queued == Range(satisfied)

ReadyQueue ==
    /\ [](pc \in {"idle", "loop"} =>
             /\ NoRepeat(satisfied)
             /\ \A c \in DOMAIN closures :
                    c \in Queued <=> /\ ~closures[c].released
                                     /\ closure_satisfied(closures[c]))
    /\ [][\A c \in Range(satisfied') \ Queued : c \notin DOMAIN batch]_vars

\* func_xxy, which reads 'x' twice and 'y' once, is in the queue after func
\* has written 'x', 'y' and 'z' in one invocation
ReadyQueueWitness ==
    /\ pc = "loop"
    /\ "func" \in Invoked
    /\ \E c \in Queued : closures[c].func = "func_xxy"

(***************************************************************************)
(* C23  Read-counter accounting.  After registration, after the keywords   *)
(* of call() are written and at every boundary of its loop, the counter    *)
(* num_read_ready_waits of a closure that has not run is the number of its *)
(* arguments whose variable is not readable, one per argument.             *)
(***************************************************************************)
PendingReads(c) ==
    Cardinality({i \in DOMAIN closures[c].args :
                    ~readable(variables[closures[c].args[i].var])})

ReadCounterAccounting ==
    pc \in {"idle", "loop"} =>
        \A c \in DOMAIN closures :
            ~closures[c].released =>
                closures[c].num_read_ready_waits = PendingReads(c)

\* call(x=3) has made 'x' readable: func_xxy, which reads it twice, waits
\* for 'y' only
ReadCounterAccountingWitness ==
    /\ pc = "loop"
    /\ log = <<>>
    /\ \E c \in DOMAIN closures :
           /\ closures[c].func = "func_xxy"
           /\ closures[c].num_read_ready_waits = 1
           /\ readable(variables["x"])

(***************************************************************************)
(* C24  Repeated output variable.  A return annotation that names a        *)
(* variable m times declares m writes on it; the invocation writes the     *)
(* elements of the returned tuple to the variables of the annotation in    *)
(* order, so m values to that variable; a reader of the variable is        *)
(* invoked after that invocation; a ['v'] reader is given the m values in  *)
(* the order of the annotation and a 'v' reader the last of them.          *)
(***************************************************************************)
\* the pairs (variable, value) of a tuple returned for a tuple annotation
Zipped(func) ==
    [k \in DOMAIN Outputs(func) |->
        [var |-> Outputs(func)[k], value |-> Catalogue[func].value[k]]]

\* the functions whose return annotation names `name` more than once
Repeaters(name) == {f \in Range(added) : Occurrences(Outputs(f), name) > 1}

RepeatedOutput ==
    /\ pc = "idle" =>
           \A name \in DOMAIN variables :
               variables[name].num_write_waits = OutputOccurrences(added, name)
    /\ \A i \in DOMAIN log :
           (/\ ~log[i].raised
            /\ Catalogue[log[i].func].ret.type = "tuple"
            /\ Len(Catalogue[log[i].func].value) = Len(Outputs(log[i].func)))
           => log[i].wrote = Zipped(log[i].func)
    /\ \A j \in DOMAIN log : \A a \in DOMAIN log[j].kwargs :
           LET arg == log[j].kwargs[a]
           IN \A f \in Repeaters(arg.var) :
                  /\ \E i \in 1..(j - 1) :
                         /\ log[i].func = f
                         /\ Len(ValuesFor(log[i].wrote, arg.var))
                                = Occurrences(Outputs(f), arg.var)
                  /\ (WriterTasks(arg.var) = {f} /\ arg.var \notin KwargNames)
                     => arg.value = IF arg.read = "read_all"
                                    THEN ValuesFor(Zipped(f), arg.var)
                                    ELSE Last(ValuesFor(Zipped(f), arg.var))

\* func_repeat -> ('x', 'x', 'x') returned (1, 3, 2): func_collect was given
\* [1, 3, 2] and func_x was given 2
RepeatedOutputWitness ==
    /\ pc = "returned"
    /\ \E i, j, k \in DOMAIN log :
           /\ log[i].func = "func_repeat"
           /\ log[i].wrote = <<[var |-> "x", value |-> 1],
                               [var |-> "x", value |-> 3],
                               [var |-> "x", value |-> 2]>>
           /\ log[j].func = "func_collect"
           /\ log[j].kwargs[1].value = <<1, 3, 2>>
           /\ log[k].func = "func_x"
           /\ log[k].kwargs[1].value = 2
    /\ result = [x |-> 2]

(***************************************************************************)
(* C25  Output arity.  When a function with a tuple annotation of N        *)
(* variables has returned a tuple of another length, call() does not       *)
(* return: the mismatch is an error.                                       *)
(***************************************************************************)
\* invocation i returned a tuple whose length is not that of the annotation
ArityMismatch(i) ==
    /\ ~log[i].raised
    /\ Catalogue[log[i].func].ret.type = "tuple"
    /\ Len(Catalogue[log[i].func].value) # Len(Outputs(log[i].func))

OutputArity == \A i \in DOMAIN log : ArityMismatch(i) => pc # "returned"

(***************************************************************************)
(* C26  What Closure.call returns.  A call that ends normally returns the  *)
(* set of the variables of the return annotation: the empty set when       *)
(* there is none (the value is discarded and no variable changes), one     *)
(* variable for a string (the whole value is written as one value, also    *)
(* when it is a tuple), the distinct variables of a tuple.                 *)
(***************************************************************************)
\* the record of the invocation that ended normally
Ran == log[Len(log)]

CallResult ==
    /\ [](closures[1].released =>
             LET f == closures[1].func
                 ret == Catalogue[f].ret
             IN /\ Ran.func = f /\ ~Ran.raised
                /\ result = Range(Outputs(f))
                /\ ret.type = "none" => result = {} /\ Ran.wrote = <<>>
                /\ ret.type = "str" =>
                       /\ result = {ret.items[1]}
                       /\ Ran.wrote = <<[var |-> ret.items[1],
                                         value |-> Body(f, Ran.kwargs).value]>>
                /\ ret.type = "tuple" =>
                       /\ [k \in DOMAIN Ran.wrote |-> Ran.wrote[k].var]
                              = Outputs(f)
                       /\ Cardinality(result)
                              = Cardinality({Outputs(f)[k] :
                                                k \in DOMAIN Outputs(f)}))
    /\ [][(~closures[1].released /\ closures'[1].released) =>
             \A name \in DOMAIN variables :
                 /\ variables'[name].values =
                        variables[name].values
                            \o ValuesFor(Ran'.wrote, name)
                 /\ Catalogue[closures[1].func].ret.type = "none"
                        => variables'[name] = variables[name]]_vars

\* pair -> 'x' returned the tuple (1, 2): one value, the tuple, was written
CallResultWitness ==
    /\ program = "closure"
    /\ closures[1].func = "pair"
    /\ closures[1].released
    /\ result = {"x"}
    /\ Ran.wrote = <<[var |-> "x", value |-> <<1, 2>>]>>

\* plain returned 7 and has no return annotation: the empty set
CallResultNone ==
    /\ program = "closure"
    /\ closures[1].func = "plain"
    /\ closures[1].released
    /\ result = {}

\* func_repeat -> ('x', 'x', 'x'): the set of one variable
CallResultRepeat ==
    /\ program = "closure"
    /\ closures[1].func = "func_repeat"
    /\ closures[1].released
    /\ result = {"x"}
    /\ Len(Ran.wrote) = 3

(***************************************************************************)
(* C27  A closure is called at most once.  After a call of the closure has *)
(* ended normally, a further call raises, does not invoke the function and *)
(* writes no variable.                                                     *)
(***************************************************************************)
\* an invocation of the function has ended normally
Completed == \E i \in DOMAIN log : ~log[i].raised

OneShot ==
    /\ [][(Completed /\ ClosCall) =>
             /\ raised' # ""
             /\ log' = log
             /\ variables' = variables
             /\ result' = result]_vars
    /\ [](Cardinality({i \in DOMAIN log : ~log[i].raised}) <= 1)

\* the closure of pair was called, and then called or notified once more
OneShotWitness ==
    /\ program = "closure"
    /\ closures[1].func = "pair"
    /\ Completed
    /\ closures[1].released
    /\ raised = "AttributeError"

(***************************************************************************)
(* What a signature and its annotations say.                               *)
(***************************************************************************)
\* the parameters without a default value, positional and keyword-only
Required(func) ==
    LET argspec == getfullargspec(func)
    IN {argspec.args[i] : i \in 1..(Len(argspec.args) - argspec.defaults)}
       \cup (Range(argspec.kwonlyargs) \ argspec.kwonlydefaults)

MissingAnnotation(func) ==
    \E p \in Required(func) : p \notin getfullargspec(func).annotations

AllAnnotated(func) ==
    LET argspec == getfullargspec(func)
    IN Range(argspec.args) \cup Range(argspec.kwonlyargs)
          \subseteq argspec.annotations

\* a string, or a list of exactly one string
WellFormedInput(anno) ==
    \/ anno.type = "str"
    \/ anno.type = "list" /\ Len(anno.items) = 1 /\ anno.items[1] # NonStr

\* absent or None, a string, or a tuple of strings
WellFormedReturn(ret) ==
    \/ ret.type \in {"none", "str"}
    \/ ret.type = "tuple" /\ \A k \in DOMAIN ret.items : ret.items[k] # NonStr

WellFormed(func) ==
    /\ \A i \in DOMAIN Catalogue[func].annotations :
           WellFormedInput(Catalogue[func].annotations[i])
    /\ WellFormedReturn(Catalogue[func].ret)

\* the step is startup(func), and it raised StartupException
Rejected(func) ==
    /\ Add(func)
    /\ raised' = "StartupException"
    /\ funcs' = funcs /\ closures' = closures /\ satisfied' = satisfied
    /\ added' = added

\* the step is startup(func), and func was added
Accepted(func) ==
    /\ Add(func)
    /\ raised' = ""
    /\ funcs' = funcs \cup {func}
    /\ added' = Append(added, func)

(***************************************************************************)
(* C28  Mandatory annotations.  startup(func), for a function that is not  *)
(* yet added and whose annotations are well formed, is rejected exactly    *)
(* when a parameter without default value has no annotation, wherever the  *)
(* keyword-only parameters with defaults stand in the signature.           *)
(***************************************************************************)
MandatoryAnnotations ==
    [][\A func \in Programs[program] :
          (Add(func) /\ func \notin funcs /\ WellFormed(func)) =>
              IF MissingAnnotation(func) THEN Rejected(func)
              ELSE Accepted(func)]_vars

(***************************************************************************)
(* C29  Binding well-formedness.  startup(func), for a function that is    *)
(* not yet added and whose parameters are all annotated, adds the function *)
(* if every parameter annotation is a string (read_latest) or a list of    *)
(* one string (read_all) and the return annotation is absent, a string or  *)
(* a tuple of strings; otherwise it raises StartupException and adds       *)
(* nothing.                                                                *)
(***************************************************************************)
\* the closure made for the function added last
Newest == closures'[Len(closures')]

BindingWellFormed ==
    [][\A func \in Programs[program] :
          (Add(func) /\ func \notin funcs /\ AllAnnotated(func)) =>
              IF WellFormed(func)
              THEN /\ Accepted(func)
                   /\ Len(closures') = Len(closures) + 1
                   /\ Newest.func = func
                   /\ Len(Newest.args) = Len(Catalogue[func].annotations)
                   /\ \A i \in DOMAIN Newest.args :
                          LET anno == Catalogue[func].annotations[i]
                          IN /\ Newest.args[i].name = anno.arg
                             /\ Newest.args[i].var = anno.items[1]
                             /\ Newest.args[i].read =
                                    IF anno.type = "str" THEN "read_latest"
                                    ELSE "read_all"
                   /\ Newest.writeto.vars = Catalogue[func].ret.items
              ELSE Rejected(func)]_vars

\* in_str and in_list1 were added and a function with a malformed
\* annotation was rejected
BindingWellFormedWitness ==
    /\ program = "annotations"
    /\ pc = "idle"
    /\ added = <<"in_list1", "in_str">>
    /\ closures[1].args[1].read = "read_all"
    /\ closures[2].args[1].read = "read_latest"
    /\ raised = "StartupException"

(***************************************************************************)
(* C30  A function that returns nothing still writes.  The None returned   *)
(* for a 'v' annotation is appended to the values of v and is the write    *)
(* the annotation declared: pending writes and written values add up to    *)
(* the declared writes, v becomes readable and its readers are invoked; a  *)
(* ['v'] reader over two such functions is given [None, None].             *)
(***************************************************************************)
ReturnsNone(func) ==
    /\ Catalogue[func].ret.type = "str"
    /\ Catalogue[func].body = "const"
    /\ Catalogue[func].value = None

NoneIsWritten ==
    /\ \A i \in DOMAIN log :
           (ReturnsNone(log[i].func) /\ ~log[i].raised) =>
               LET name == Outputs(log[i].func)[1]
               IN /\ log[i].wrote = <<[var |-> name, value |-> None]>>
                  /\ Len(variables[name].values) >= Len(Written(name, i))
                  /\ SubSeq(variables[name].values, 1, Len(Written(name, i)))
                         = Written(name, i - 1) \o <<None>>
    /\ pc = "loop" =>
           \A name \in DOMAIN variables :
               variables[name].num_write_waits + Len(variables[name].values)
                   = DeclaredWrites(name)
    /\ \A j \in DOMAIN log : \A a \in DOMAIN log[j].kwargs :
           LET arg == log[j].kwargs[a]
           IN (/\ WriterTasks(arg.var) # {}
               /\ \A w \in WriterTasks(arg.var) : ReturnsNone(w)
               /\ arg.var \notin KwargNames)
              => arg.value =
                     IF arg.read = "read_latest" THEN None
                     ELSE [k \in 1..Cardinality(WriterTasks(arg.var)) |-> None]

\* add_argument_x and add_argument_y returned None, collect_opts was given
\* [None, None] and parse_argv None
NoneIsWrittenWitness ==
    /\ program = "opts"
    /\ pc = "returned"
    /\ kwargs = <<[name |-> "x", value |-> 3]>>
    /\ LogFuncs(log) = <<"add_argument_x", "add_argument_y", "collect_opts",
                         "parse_argv">>
    /\ log[3].kwargs[1].value = <<None, None>>
    /\ log[4].kwargs[2].value = None
    /\ result = [x |-> 3, y |-> None, z |-> <<None, None>>]

(***************************************************************************)
(* C31  Termination.  call() ends, by returning or by raising, after at    *)
(* most as many iterations of its loop as there are added functions, and   *)
(* the function invoked in one iteration has returned or raised before the *)
(* next closure is taken from the queue.                                   *)
(***************************************************************************)
\* the iterations done and those the queue still asks for
IterationBound == pc = "loop" => Len(log) + Len(satisfied) <= Len(added)

\* a step of the loop that does not end call() is one more invocation, so
\* that with the bound above the loop is left after finitely many steps
LoopVariant ==
    [][(pc = "loop" /\ pc' = "loop") => Len(log') = Len(log) + 1]_vars

\* the body of a function that call() invoked is still executing: it has
\* entered call() and that call() is in its loop
Executing == pc = "loop" /\ \E i \in DOMAIN log : Reenters(log[i].func)

RunToCompletion ==
    [][Executing => (satisfied' = satisfied /\ Len(log') = Len(log))]_vars

(***************************************************************************)
(* C32  A rejected registration leaves no trace.  When startup(func)       *)
(* raises, the table of variables (with every counter and list of          *)
(* readers), self.funcs, self.satisfied and the closures are what they     *)
(* were before.                                                            *)
(***************************************************************************)
\* a step of registration that added nothing
RejectedStep == pc = "idle" /\ pc' = "idle" /\ added' = added

NoTrace ==
    [][RejectedStep =>
          /\ variables' = variables
          /\ funcs' = funcs
          /\ satisfied' = satisfied
          /\ closures' = closures]_vars

(***************************************************************************)
(* C33  The values of a readable variable are frozen.  Once a variable is  *)
(* readable no step of the call() writes to it or declares a write on it,  *)
(* so that every function that reads it, whenever it is invoked, is given  *)
(* the values the variable has in the end: all of them for ['v'], the last *)
(* of them for 'v'.                                                        *)
(***************************************************************************)
FrozenOnceReadable ==
    /\ [][\A name \in DOMAIN variables :
             readable(variables[name]) =>
                 /\ variables'[name].values = variables[name].values
                 /\ variables'[name].num_write_waits = 0]_vars
    /\ [](\A i \in DOMAIN log : \A a \in DOMAIN log[i].kwargs :
             LET arg == log[i].kwargs[a]
             IN /\ readable(variables[arg.var])
                /\ arg.value = IF arg.read = "read_all"
                               THEN variables[arg.var].values
                               ELSE Last(variables[arg.var].values))

\* 'x' has three values; func_collect and, after it, func_x and func_xxy
\* were given the same three values and the last of them
FrozenOnceReadableWitness ==
    /\ program = "multi"
    /\ pc = "returned"
    /\ DOMAIN variables = {"x", "y"}
    /\ Len(variables["x"].values) = 3
    /\ \E i, j, k \in DOMAIN log :
           /\ i < j /\ j < k
           /\ log[i].func = "func_collect"
           /\ log[i].kwargs[1].value = variables["x"].values
           /\ log[j].func = "func_x"
           /\ log[k].func = "func_xxy"
           /\ log[k].kwargs[2].value = Last(variables["x"].values)

(***************************************************************************)
(* C34  Frame of one iteration.  The iteration that invokes a function     *)
(* changes the values and the pending writes only of the variables of its  *)
(* return annotation, lowers the counter of another closure by one for     *)
(* each of its arguments whose variable became readable in this iteration  *)
(* and by nothing else, takes only this function out of self.funcs, and    *)
(* leaves every other variable and closure as it was.                      *)
(***************************************************************************)
\* the step is an iteration of the loop that invoked a function
Invokes == pc = "loop" /\ Len(log') = Len(log) + 1

\* the arguments of closure c whose variable became readable in the step
Unlocked(c) ==
    {i \in DOMAIN closures[c].args :
        /\ ~readable(variables[closures[c].args[i].var])
        /\ readable(variables'[closures[c].args[i].var])}

IterationFrame ==
    [][Invokes =>
          LET ran == log'[Len(log')]
          IN /\ DOMAIN variables' = DOMAIN variables
             /\ \A name \in DOMAIN variables :
                    /\ variables'[name].readers = variables[name].readers
                    /\ name \notin Range(Outputs(ran.func))
                           => variables'[name] = variables[name]
             /\ DOMAIN closures' = DOMAIN closures
             /\ \A c \in DOMAIN closures :
                    c # ran.closure =>
                        closures'[c] =
                            [closures[c] EXCEPT !.num_read_ready_waits =
                                @ - Cardinality(Unlocked(c))]
             /\ funcs' = IF ran.raised THEN funcs ELSE funcs \ {ran.func}
             /\ funcs \ funcs' \subseteq {ran.func}
             /\ added' = added]_vars

\* seq3 has run with x = 3: seq2, which reads 'y', waits for nothing, and
\* seq1, which reads 'z', is as it was
IterationFrameWitness ==
    /\ program = "chain"
    /\ pc = "loop"
    /\ LogFuncs(log) = <<"seq3">>
    /\ funcs = {"seq2", "seq1"}
    /\ \E c, d \in DOMAIN closures :
           /\ closures[c].func = "seq2" /\ closures[c].num_read_ready_waits = 0
           /\ closures[d].func = "seq1" /\ closures[d].num_read_ready_waits = 1

(***************************************************************************)
(* C35  Write-counter accounting.  At every boundary of the loop of        *)
(* call() the pending writes of a variable are the occurrences of the      *)
(* variable in the return annotations of the added functions that have     *)
(* not run; when call() has returned every variable of the table has no    *)
(* pending write and at least one value.                                   *)
(***************************************************************************)
\* the added functions that have not run, in the order they were added
NotRun == SelectSeq(added, LAMBDA f : f \in funcs)

WriteCounterAccounting ==
    /\ pc = "loop" =>
           \A name \in DOMAIN variables :
               variables[name].num_write_waits = OutputOccurrences(NotRun, name)
    /\ pc = "returned" =>
           \A name \in DOMAIN variables :
               /\ variables[name].num_write_waits = 0
               /\ variables[name].values # <<>>

(***************************************************************************)
(* C36  The keywords of call() are written first.  Nothing is written or   *)
(* invoked before call(); when its loop starts every keyword has been      *)
(* written and no function invoked, so the value of a keyword is the       *)
(* first value of its variable and the first element a ['v'] reader is     *)
(* given; the dict call() returns has, for a variable that added functions *)
(* write too, the value of the last invocation that wrote it.              *)
(***************************************************************************)
\* the invocations that wrote the variable
WritersOf(name) == {i \in DOMAIN log : ValuesFor(log[i].wrote, name) # <<>>}

InitialValuesFirst ==
    /\ pc = "idle" =>
           /\ log = <<>>
           /\ \A name \in DOMAIN variables : variables[name].values = <<>>
    /\ (pc = "loop" /\ log = <<>>) =>
           \A name \in KwargNames :
               variables[name].values = <<Supplied[name]>>
    /\ pc # "idle" =>
           \A name \in KwargNames : variables[name].values[1] = Supplied[name]
    /\ \A i \in DOMAIN log : \A a \in DOMAIN log[i].kwargs :
           LET arg == log[i].kwargs[a]
           IN (arg.read = "read_all" /\ arg.var \in KwargNames)
                  => arg.value[1] = Supplied[arg.var]
    /\ pc = "returned" =>
           \A name \in KwargNames :
               WritersOf(name) # {} =>
                   LET last == CHOOSE i \in WritersOf(name) :
                                   \A j \in WritersOf(name) : j <= i
                   IN result[name] = Last(ValuesFor(log[last].wrote, name))

\* call(x=3) with func1 and func2 writing 'x': the joiner was given
\* [3, 1, 2] and call() returned x = 2
InitialValuesFirstWitness ==
    /\ program = "join"
    /\ pc = "returned"
    /\ kwargs = <<[name |-> "x", value |-> 3]>>
    /\ LogFuncs(log) = <<"func1", "func2", "afunc_join">>
    /\ log[3].kwargs[1].value = <<3, 1, 2>>
    /\ result = [x |-> 2]

(***************************************************************************)
(* C37  A keyword of call() that no added function reads or writes passes  *)
(* through: call() leaves its variable with no pending write, no reader    *)
(* and the keyword's value alone, which is readable; the closures that     *)
(* read no keyword are as they were and none of them joins the queue; the  *)
(* variable stays so to the end and the dict call() returns has the        *)
(* keyword's value.  With nothing added and no keyword the dict is empty.  *)
(***************************************************************************)
\* the closures with an argument that reads the variable
ReadersOf(name) ==
    {c \in DOMAIN closures :
        \E i \in DOMAIN closures[c].args : closures[c].args[i].var = name}

\* the keywords no added function reads or writes
Passing ==
    {name \in KwargNames : WriterTasks(name) = {} /\ ReadersOf(name) = {}}

PassedThrough(name) ==
    [num_write_waits |-> 0, readers |-> <<>>, values |-> <<Supplied[name]>>]

\* Startup.call from its entry to the start of its loop
EntersLoop == pc = "idle" /\ pc' = "loop"

PassThrough ==
    /\ [][EntersLoop =>
             /\ \A name \in Passing' :
                    /\ name \in DOMAIN variables => variables[name] = Variable
                    /\ name \in DOMAIN variables'
                    /\ variables'[name] = PassedThrough(name)
                    /\ readable(variables'[name])
             /\ \A c \in DOMAIN closures :
                    ((\A i \in DOMAIN closures[c].args :
                          closures[c].args[i].var \notin KwargNames')
                        => /\ closures'[c] = closures[c]
                           /\ c \in Range(satisfied') <=> c \in Range(satisfied))]_vars
    /\ [](pc # "idle" =>
             \A name \in Passing :
                 /\ name \in DOMAIN variables
                 /\ variables[name] = PassedThrough(name))
    /\ [](pc = "returned" =>
             /\ \A name \in Passing : result[name] = Supplied[name]
             /\ (added = <<>> /\ kwargs = <<>>) => result = <<>>)

\* a keyword passed through beside functions that ran and wrote others
PassThroughWitness ==
    /\ pc = "returned"
    /\ log # <<>>
    /\ \E name \in Passing : result[name] = Supplied[name]
    /\ DOMAIN result \ Passing # {}

\* call(x=3) with nothing added returned {'x': 3}
PassThroughAlone ==
    /\ pc = "returned"
    /\ added = <<>>
    /\ kwargs = <<[name |-> "x", value |-> 3]>>
    /\ Passing = {"x"}
    /\ result = [x |-> 3]

\* call() with nothing added and no keyword returned {}
PassThroughEmpty ==
    pc = "returned" /\ added = <<>> /\ kwargs = <<>> /\ result = <<>>

====
